---- MODULE Spec2Model ----
(***************************************************************************)
(* A model of the RFP answering backend (backend/rfp_system): the answer   *)
(* cache's text normalisation, the document ingestion task with the RAG    *)
(* pipeline and the vector store, and the answer generation tasks and      *)
(* endpoints with their TaskStatus records.                                *)
(***************************************************************************)
EXTENDS Integers, Sequences, FiniteSets, TLC

VARIABLES
    text,        \* caching.py: the question_text handed to normalize_question
    normalized,  \* caching.py: what normalize_question returned, call after call
    documents,   \* models.Document rows, by id (NoRow: no such row)
    docChunks,   \* the number of chunks the chunker cuts each document's file into
    chunkRows,   \* models.DocumentChunk rows, as (document id, chunk_index)
    collection,  \* the ChromaDB collection: the chunk ids it holds
    taskStatus,  \* models.TaskStatus rows, by task_id (NoRow: no such row)
    task,        \* the Celery tasks: argument, position and local variables
    rfps,        \* models.RFP rows: the status, by id (NoRow: no such row)
    questions,   \* models.Question rows, by id
    answers,     \* models.Answer rows, by the question that owns them (in
                 \* OwnershipSpec: the set of the rows)
    now,         \* the clock that stamps Answer.generated_at
    call,        \* the arguments of a call of VectorStore.search or of the
                 \* AnswerGenerator (NoRow: none)
    returned     \* what the call returned, once it has

vars == <<text, normalized, documents, docChunks, chunkRows, collection,
          taskStatus, task, rfps, questions, answers, now, call, returned>>

\* The absence of a row (a lookup raising DoesNotExist), or of a value (None).
NoRow == [row |-> "none"]

(***************************************************************************)
(* services/caching.py: normalize_question                                 *)
(***************************************************************************)

\* The longest question text examined.
MaxLen == 4

Whitespace == {" ", "\t"}

Chars == {"a", "A", "b", "?"} \cup Whitespace

Texts == UNION {[1..n -> Chars] : n \in 0..MaxLen}

\* str.lower(), one character
LowerChar(c) == IF c = "A" THEN "a" ELSE c

\* str.lower()
Lower(s) == [i \in 1..Len(s) |-> LowerChar(s[i])]

RECURSIVE RStrip(_, _)
\* str.rstrip(chars): drop the trailing characters that are in cs
RStrip(s, cs) ==
    IF s # <<>> /\ s[Len(s)] \in cs
    THEN RStrip(SubSeq(s, 1, Len(s) - 1), cs)
    ELSE s

RECURSIVE LStrip(_, _)
\* str.lstrip(chars)
LStrip(s, cs) ==
    IF s # <<>> /\ s[1] \in cs
    THEN LStrip(SubSeq(s, 2, Len(s)), cs)
    ELSE s

\* str.strip(): both ends, whitespace
Strip(s) == RStrip(LStrip(s, Whitespace), Whitespace)

RECURSIVE Split(_)
\* str.split(): the maximal runs of non-whitespace characters, in order
Split(s) ==
    LET t == LStrip(s, Whitespace)
        WordEnd[i \in 0..Len(t)] ==
            IF i < Len(t) /\ t[i + 1] \notin Whitespace THEN WordEnd[i + 1] ELSE i
        n == WordEnd[0]
    IN  IF t = <<>> THEN <<>>
        ELSE <<SubSeq(t, 1, n)>> \o Split(SubSeq(t, n + 1, Len(t)))

RECURSIVE Join(_)
\* ' '.join(words)
Join(words) ==
    IF words = <<>> THEN <<>>
    ELSE IF Len(words) = 1 THEN words[1]
    ELSE words[1] \o <<" ">> \o Join(Tail(words))

\* normalize_question: lower().strip(); ' '.join(split()); rstrip('?').rstrip()
normalize_question(question_text) ==
    RStrip(RStrip(Join(Split(Strip(Lower(question_text)))), {"?"}), Whitespace)

\* generate_question_hash: SHA-256 of the normalized text, taken as injective
generate_question_hash(question_text) == <<"sha256", normalize_question(question_text)>>

(***************************************************************************)
(* Document ingestion: tasks.process_document_async, which runs            *)
(* RAGPipeline.process_document, which writes DocumentChunk rows and calls *)
(* VectorStore.add_chunks.                                                 *)
(***************************************************************************)

\* The number of ingestion tasks submitted (runs of process_document_async).
MaxTasks == 2

\* The most chunks the chunker cuts a document into.
MaxChunks == 2

Tasks == 1..MaxTasks

\* tasks.py 34: total_steps=5
IngestSteps == 5

\* The uploaded document, and an id no Document row has.
Docs == {"d1"}

DocIds == Docs \cup {"missing"}

\* rag_pipeline.py: chunk_id = f"{document_instance.id}_{idx}"
ChunkId(d, idx) == <<d, idx>>

\* The pairs of a loop that counts from one: enumerate(..., start=1)
ChunkKeysFromOne(d) == {<<d, idx>> : idx \in 1..docChunks[d]}

\* The (document, chunk_index) pairs one run of process_document builds.
ChunkKeys(d) == {<<d, idx>> : idx \in 0..(docChunks[d] - 1)}

\* models.Document: the field defaults
NewDocument ==
    [processing_status |-> "pending", processed |-> FALSE, chunk_count |-> 0,
     error |-> ""]

\* TaskStatus.objects.create(task_id, task_type, status='STARTED', ...), with the
\* started_at stamp that follows it
NewTaskStatus(type, total_steps) ==
    [task_type |-> type, status |-> "STARTED", progress |-> 0, error |-> "",
     total_steps |-> total_steps, completed_at |-> FALSE, result |-> NoRow]

\* A task in the queue, and the locals of its body before it runs:
\* inst is the Document instance the body holds, ran the pipeline steps it
\* has executed, failed the step that raised, error the message raised; rerun
\* tells that an earlier task had finished with the same document when this
\* one started.
QueuedTask(d) ==
    [arg |-> d, pc |-> "queued", inst |-> NoRow, ran |-> <<>>, failed |-> "",
     error |-> "", success |-> FALSE, rerun |-> FALSE]

\* The RFPs, questions and answers before any is created, and no call.
NoAnswering ==
    /\ rfps = <<>>
    /\ questions = <<>>
    /\ answers = <<>>
    /\ now = 0
    /\ call = NoRow
    /\ returned = <<>>

IngestInit ==
    /\ text = <<>>
    /\ normalized = <<>>
    /\ NoAnswering
    /\ documents = [d \in DocIds |-> IF d \in Docs THEN NewDocument ELSE NoRow]
    /\ docChunks \in [Docs -> 0..MaxChunks]
    /\ chunkRows = {}
    /\ collection = {}
    /\ taskStatus = [t \in Tasks |-> NoRow]
    /\ task \in [Tasks -> {QueuedTask(d) : d \in DocIds}]

IngestUnchanged ==
    UNCHANGED <<text, normalized, docChunks, rfps, questions, answers, now,
                call, returned>>

\* task_status.save() that leaves completed_at out of what it writes
SaveWithoutCompletedAt(t, fields) ==
    taskStatus' = [taskStatus EXCEPT ![t] =
        [f \in DOMAIN taskStatus[t] |->
            IF f \in DOMAIN fields \ {"completed_at"}
            THEN fields[f] ELSE taskStatus[t][f]]]

\* task_status.<fields> = ...; task_status.save()
SaveTaskStatus(t, fields) ==
    taskStatus' = [taskStatus EXCEPT ![t] =
        [f \in DOMAIN taskStatus[t] |->
            IF f \in DOMAIN fields THEN fields[f] ELSE taskStatus[t][f]]]


\* tasks.py 24-37: Document.objects.get; DoesNotExist leaves task_status None and
\* the task raises; otherwise the TaskStatus row is created
StartTask(t) ==
    /\ task[t].pc = "queued"
    /\ IF documents[task[t].arg] = NoRow
       THEN /\ task' = [task EXCEPT ![t].pc = "raised",
                                    ![t].error = "Document not found"]
            /\ UNCHANGED taskStatus
       ELSE /\ task' = [task EXCEPT ![t].pc = "mark",
                                    ![t].inst = documents[task[t].arg],
                                    ![t].rerun = \E u \in Tasks :
                                        /\ task[u].arg = task[t].arg
                                        /\ task[u].pc \in {"returned", "raised"}]
            /\ taskStatus' = [taskStatus EXCEPT ![t] =
                                 NewTaskStatus("document_processing", IngestSteps)]
    /\ UNCHANGED <<documents, chunkRows, collection>>
    /\ IngestUnchanged

\* tasks.py 39-41: document.processing_status = 'processing'; document.save()
MarkProcessing(t) ==
    /\ task[t].pc = "mark"
    /\ LET inst == [task[t].inst EXCEPT !.processing_status = "processing"]
       IN  /\ documents' = [documents EXCEPT ![task[t].arg] = inst]
           /\ task' = [task EXCEPT ![t].inst = inst, ![t].pc = "p10"]
    /\ UNCHANGED <<taskStatus, chunkRows, collection>>
    /\ IngestUnchanged

\* tasks.py 43-59 and 66-69: the fixed progress values, one save each
ProgressStep(t) ==
    /\ task[t].pc \in {"p10", "p20", "p40", "p90"}
    /\ LET at == task[t].pc
           value == CASE at = "p10" -> 10 [] at = "p20" -> 20
                      [] at = "p40" -> 40 [] at = "p90" -> 90
           next == CASE at = "p10" -> "p20" [] at = "p20" -> "p40"
                     [] at = "p40" -> "pl_start" [] at = "p90" -> "finish"
       IN  /\ SaveTaskStatus(t, [progress |-> value])
           /\ task' = [task EXCEPT ![t].pc = next]
    /\ UNCHANGED <<documents, chunkRows, collection>>
    /\ IngestUnchanged

\* rag_pipeline.py 47-50: processing_status = 'processing'; save()
PipelineStart(t) ==
    /\ task[t].pc = "pl_start"
    /\ LET inst == [task[t].inst EXCEPT !.processing_status = "processing"]
       IN  /\ documents' = [documents EXCEPT ![task[t].arg] = inst]
           /\ task' = [task EXCEPT ![t].inst = inst, ![t].pc = "pl_compute"]
    /\ UNCHANGED <<taskStatus, chunkRows, collection>>
    /\ IngestUnchanged

\* rag_pipeline.py 52-83: extract_text (None on any failure), chunk_text (no
\* chunks for blank text), embed_batch (may raise). None of them touches the
\* database or the index; the first that fails raises into the handler.
PipelineCompute(t) ==
    /\ task[t].pc = "pl_compute"
    /\ \/ task' = [task EXCEPT ![t].pc = "pl_fail", ![t].ran = <<"extract">>,
                               ![t].failed = "extract",
                               ![t].error = "Could not extract text from document"]
       \/ /\ docChunks[task[t].arg] = 0
          /\ task' = [task EXCEPT ![t].pc = "pl_fail",
                                  ![t].ran = <<"extract", "chunk">>,
                                  ![t].failed = "chunk",
                                  ![t].error = "No chunks generated from document"]
       \/ /\ docChunks[task[t].arg] > 0
          /\ task' = [task EXCEPT ![t].pc = "pl_fail",
                                  ![t].ran = <<"extract", "chunk", "embed">>,
                                  ![t].failed = "embed",
                                  ![t].error = "embedding failed"]
       \/ /\ docChunks[task[t].arg] > 0
          /\ task' = [task EXCEPT ![t].pc = "pl_persist",
                                  ![t].ran = <<"extract", "chunk", "embed">>]
    /\ UNCHANGED <<documents, taskStatus, chunkRows, collection>>
    /\ IngestUnchanged

\* rag_pipeline.py 85-105: DocumentChunk.objects.bulk_create(chunk_objects);
\* models.py 46 and 51: chromadb_id is unique and so is (document, chunk_index),
\* so the insert raises IntegrityError, and inserts nothing, when a row is there
bulk_create(t) ==
    /\ task[t].pc = "pl_persist"
    /\ IF ChunkKeys(task[t].arg) \cap chunkRows # {}
       THEN /\ task' = [task EXCEPT ![t].pc = "pl_fail",
                                    ![t].ran = Append(@, "bulk_create"),
                                    ![t].failed = "bulk_create",
                                    ![t].error = "UNIQUE constraint failed"]
            /\ UNCHANGED chunkRows
       ELSE /\ task' = [task EXCEPT ![t].pc = "pl_index",
                                    ![t].ran = Append(@, "bulk_create")]
            /\ chunkRows' = chunkRows \cup ChunkKeys(task[t].arg)
    /\ UNCHANGED <<documents, taskStatus, collection>>
    /\ IngestUnchanged

\* vector_store.py 50-79: collection.add(ids, ...); an exception of the index is
\* printed and answered with False. rag_pipeline.py 108-113 drops the answer.
add_chunks(t) ==
    /\ task[t].pc = "pl_index"
    /\ \/ /\ collection' = collection \cup
                  {ChunkId(k[1], k[2]) : k \in ChunkKeys(task[t].arg)}
          /\ task' = [task EXCEPT ![t].pc = "pl_complete",
                                  ![t].ran = Append(@, "add_chunks")]
       \/ /\ UNCHANGED collection
          /\ task' = [task EXCEPT ![t].pc = "pl_complete",
                                  ![t].ran = Append(@, "add_chunks"),
                                  ![t].failed = "add_chunks"]
    /\ UNCHANGED <<documents, taskStatus, chunkRows>>
    /\ IngestUnchanged

\* rag_pipeline.py 115-131 without the assignment of chunk_count (118)
PipelineCompleteUncounted(t) ==
    /\ task[t].pc = "pl_complete"
    /\ LET inst == [task[t].inst EXCEPT !.processed = TRUE,
                                        !.processing_status = "completed"]
       IN  /\ documents' = [documents EXCEPT ![task[t].arg] = inst]
           /\ task' = [task EXCEPT ![t].inst = inst, ![t].pc = "p90",
                                   ![t].success = TRUE]
    /\ UNCHANGED <<taskStatus, chunkRows, collection>>
    /\ IngestUnchanged

\* rag_pipeline.py 115-131: processed, 'completed', chunk_count; save(); the
\* result is {'success': True, ...}
PipelineComplete(t) ==
    /\ task[t].pc = "pl_complete"
    /\ LET inst == [task[t].inst EXCEPT !.processed = TRUE,
                                        !.processing_status = "completed",
                                        !.chunk_count = docChunks[task[t].arg]]
       IN  /\ documents' = [documents EXCEPT ![task[t].arg] = inst]
           /\ task' = [task EXCEPT ![t].inst = inst, ![t].pc = "p90",
                                   ![t].success = TRUE]
    /\ UNCHANGED <<taskStatus, chunkRows, collection>>
    /\ IngestUnchanged

\* rag_pipeline.py 133-142: 'failed', metadata['error'] = str(e); save(); the
\* result is {'success': False, 'error': str(e)}
PipelineFail(t) ==
    /\ task[t].pc = "pl_fail"
    /\ LET inst == [task[t].inst EXCEPT !.processing_status = "failed",
                                        !.error = task[t].error]
       IN  /\ documents' = [documents EXCEPT ![task[t].arg] = inst]
           /\ task' = [task EXCEPT ![t].inst = inst, ![t].pc = "p90",
                                   ![t].success = FALSE]
    /\ UNCHANGED <<taskStatus, chunkRows, collection>>
    /\ IngestUnchanged

\* RAGPipeline.process_document, step by step
process_document(t) ==
    \/ PipelineStart(t)
    \/ PipelineCompute(t)
    \/ bulk_create(t)
    \/ add_chunks(t)
    \/ PipelineComplete(t)
    \/ PipelineFail(t)

\* tasks.py 71-88: SUCCESS with progress 100 and completed_at when the result
\* says success; otherwise raise Exception(result['error']); tasks.py 99-109:
\* the handler saves FAILURE, the error and completed_at
FinishTask(t) ==
    /\ task[t].pc = "finish"
    /\ IF task[t].success
       THEN /\ SaveTaskStatus(t, [status |-> "SUCCESS", progress |-> 100,
                                  completed_at |-> TRUE,
                                  result |-> [chunks_created |-> docChunks[task[t].arg]]])
            /\ task' = [task EXCEPT ![t].pc = "returned"]
       ELSE /\ SaveTaskStatus(t, [status |-> "FAILURE", error |-> task[t].error,
                                  completed_at |-> TRUE])
            /\ task' = [task EXCEPT ![t].pc = "fail_doc"]
    /\ UNCHANGED <<documents, chunkRows, collection>>
    /\ IngestUnchanged

\* tasks.py 111-120: the handler reads the document again, saves 'failed' and
\* metadata['error'], and re-raises
FailDocument(t) ==
    /\ task[t].pc = "fail_doc"
    /\ documents' = [documents EXCEPT ![task[t].arg] =
           [@ EXCEPT !.processing_status = "failed", !.error = task[t].error]]
    /\ task' = [task EXCEPT ![t].pc = "raised"]
    /\ UNCHANGED <<taskStatus, chunkRows, collection>>
    /\ IngestUnchanged

\* tasks.process_document_async, step by step
process_document_async(t) ==
    \/ StartTask(t)
    \/ MarkProcessing(t)
    \/ ProgressStep(t)
    \/ process_document(t)
    \/ FinishTask(t)
    \/ FailDocument(t)

IngestNext == \E t \in Tasks : process_document_async(t)

\* The ingestion tasks, run by a pool of workers in any interleaving.
Spec == IngestInit /\ [][IngestNext]_vars

\* The worker of task t has left the task body.
Exited(t) == task[t].pc \in {"returned", "raised"}

\* getJobStatus(task_id) answers not-found
NotFound(t) == taskStatus[t] = NoRow

Terminal(t) == ~NotFound(t) /\ taskStatus[t].status \in {"SUCCESS", "FAILURE"}

\* The run of process_document in task t is over.
PipelineDone(t) == task[t].pc \in {"p90", "finish", "fail_doc", "returned", "raised"}
                   /\ task[t].inst # NoRow

\* The step of task t that failed is one outside the program: the file, the
\* chunker's empty answer, the embedding model or the index.
ExternalFailure(t) == task[t].failed \in {"extract", "chunk", "embed", "add_chunks"}

\* The index ids of the chunks of document d.
ChunkIds(d) == {ChunkId(k[1], k[2]) : k \in ChunkKeys(d)}

\* C1: every task whose worker has left the task body has a TaskStatus row,
\* and that row is SUCCESS or FAILURE.
C1_TerminalOnExit == \A t \in Tasks : Exited(t) => Terminal(t)

\* C3: from the moment a worker has picked a task up, the task's TaskStatus
\* row exists, also when the document it names does not.
C3_RecordBeforeWork == \A t \in Tasks : task[t].pc # "queued" => ~NotFound(t)

\* C5: a run of process_document on a document that an earlier, finished task
\* has ingested, in which the file, the chunker, the embedding model and the
\* index all work, succeeds and leaves the document completed with its chunk
\* rows and vectors in place.
C5_ReingestionSucceeds ==
    \A t \in Tasks :
        (PipelineDone(t) /\ task[t].rerun /\ ~ExternalFailure(t)) =>
            /\ task[t].success
            /\ task[t].inst.processing_status = "completed"
            /\ ChunkKeys(task[t].arg) \subseteq chunkRows
            /\ ChunkIds(task[t].arg) \subseteq collection

\* C6: an ingestion task whose row is SUCCESS has every chunk of its document
\* stored in the index.
C6_SuccessMeansIndexed ==
    \A t \in Tasks :
        (~NotFound(t) /\ taskStatus[t].status = "SUCCESS") =>
            ChunkIds(task[t].arg) \subseteq collection

\* C7: when a task leaves its body after one of its ingestion steps failed, the
\* failed step is the last one that ran, the task's row is FAILURE with the
\* failure's message, and the document is failed with the same message.
C7_StepFailureAborts ==
    [][\A t \in Tasks :
        (~Exited(t) /\ Exited(t)' /\ task[t].failed # "") =>
            /\ task[t].ran[Len(task[t].ran)] = task[t].failed
            /\ taskStatus'[t].status = "FAILURE"
            /\ taskStatus'[t].error = task[t].error
            /\ documents'[task[t].arg].processing_status = "failed"
            /\ documents'[task[t].arg].error = task[t].error]_vars

(***************************************************************************)
(* The cache key functions on their own: normalize_question applied to a   *)
(* question text, and applied again to what it returned.                   *)
(***************************************************************************)

NormInit ==
    /\ text \in Texts
    /\ normalized = <<>>
    /\ documents = [d \in DocIds |-> NoRow]
    /\ docChunks = [d \in Docs |-> 0]
    /\ chunkRows = {}
    /\ collection = {}
    /\ taskStatus = [t \in Tasks |-> NoRow]
    /\ task = [t \in Tasks |-> NoRow]
    /\ NoAnswering

\* normalized = normalize_question(text)
Normalize ==
    /\ normalized = <<>>
    /\ normalized' = <<normalize_question(text)>>
    /\ UNCHANGED <<text, documents, docChunks, chunkRows, collection, taskStatus,
                   task, rfps, questions, answers, now, call, returned>>

\* normalize_question(normalized): the function applied to its own result
NormalizeAgain ==
    /\ Len(normalized) = 1
    /\ normalized' = Append(normalized, normalize_question(normalized[1]))
    /\ UNCHANGED <<text, documents, docChunks, chunkRows, collection, taskStatus,
                   task, rfps, questions, answers, now, call, returned>>

NormNext == Normalize \/ NormalizeAgain

NormSpec == NormInit /\ [][NormNext]_vars

\* C10: normalize_question applied to its own result returns that result.
C10_NormalizeIdempotent ==
    Len(normalized) = 2 => normalized[2] = normalized[1]

\* C27: texts that normalize alike hash alike; in particular a text hashes
\* like the same text in lower case, with whitespace added at either end,
\* with a whitespace character doubled, or with a question mark appended.
C27_EquivalentTextsHashAlike ==
    /\ \A other \in Texts :
           normalize_question(other) = normalize_question(text) =>
               generate_question_hash(other) = generate_question_hash(text)
    /\ generate_question_hash(Lower(text)) = generate_question_hash(text)
    /\ \A w \in Whitespace :
           /\ generate_question_hash(<<w>> \o text) = generate_question_hash(text)
           /\ generate_question_hash(Append(text, w)) = generate_question_hash(text)
    /\ \A i \in DOMAIN text :
           text[i] \in Whitespace =>
               generate_question_hash(SubSeq(text, 1, i) \o SubSeq(text, i, Len(text)))
                   = generate_question_hash(text)
    /\ generate_question_hash(Append(text, "?")) = generate_question_hash(text)

(***************************************************************************)
(* Answering: VectorStore.search, RAGPipeline.retrieve_context, the answer *)
(* cache's find_cached_answer and RAGPipeline.generate_answer.             *)
(* A distance is counted in tenths and a similarity in twentieths, so that *)
(* similarity = 1 - distance / 2 reads Similarity(d) = 20 - d.             *)
(***************************************************************************)

\* retrieve_context: similarity_threshold = 0.3, in twentieths
DefaultThreshold == 6

\* generate_answer: top_k = 5
DefaultTopK == 5

\* The distances the index answers with, in tenths: one whose similarity is
\* the default threshold (0.3) and a farther one (0.2).
Distances == {14, 16}

\* vector_store.py 119: similarity = 1 - (distance / 2), in twentieths
Similarity(distance) == 20 - distance

Min(a, b) == IF a < b THEN a ELSE b

Range(f) == {f[i] : i \in DOMAIN f}

\* collection.query(n_results=top_k): the top_k nearest entries of the
\* collection (all of them when it holds fewer), nearest first, as
\* (id, distance) pairs
Query(coll, top_k) ==
    {r \in [1..Min(top_k, Cardinality(coll)) -> coll \X Distances] :
        /\ \A i, j \in DOMAIN r : i < j => r[i][1] # r[j][1]
        /\ \A i, j \in DOMAIN r : i < j => r[i][2] <= r[j][2]}

\* vector_store.py 110-128 with the filter of 120 dropped: every entry is kept
SearchUnfiltered(results, similarity_threshold) == results

\* vector_store.py 110-128 putting each entry it keeps in front of the ones
\* kept before it (insert(0, ...) for append)
SearchNewestFirst(results, similarity_threshold) ==
    LET kept == SelectSeq(results, LAMBDA e :
                    similarity_threshold <= 0 \/ Similarity(e[2]) >= similarity_threshold)
    IN  [i \in DOMAIN kept |-> kept[Len(kept) + 1 - i]]

\* vector_store.py 110-128: with a threshold above 0, the entries whose similarity
\* reaches it, in the order the index gave them; otherwise all entries
search(results, similarity_threshold) ==
    IF similarity_threshold > 0
    THEN SelectSeq(results, LAMBDA e : Similarity(e[2]) >= similarity_threshold)
    ELSE results

\* rag_pipeline.py 161-182: what retrieve_context can return for a question, when
\* embedding works: chunks is the filtered answer of the index, nearest what
\* the index answered; or the empty result search() returns when the query
\* raises (vector_store.py 129-131)
retrieve_context(top_k, similarity_threshold) ==
    {[failed |-> FALSE, nearest |-> r, chunks |-> search(r, similarity_threshold)] :
        r \in Query(collection, top_k)}
    \cup {[failed |-> TRUE, nearest |-> <<>>, chunks |-> <<>>]}

\* The question ids: two questions of RFP r1, one of r2 whose text normalizes
\* to that of q1, and an id no Question row has.
QIds == {"q1", "q2", "q3"}

RfpIds == {"r0", "r1", "r2"}

\* models.py 100-105: Question.save() computes question_hash from the text
\* only when the instance has none (blank)
QuestionSave(instance) ==
    IF instance.question_hash = <<>>
    THEN [instance EXCEPT !.question_hash = generate_question_hash(instance.question_text)]
    ELSE instance

\* Question.objects.create(rfp, question_number, question_text): a new
\* instance, whose question_hash is blank, is saved
NewQuestion(rfp, number, question_text) ==
    QuestionSave([rfp |-> rfp, question_number |-> number,
                  question_text |-> question_text, question_hash |-> <<>>])

\* caching.py 68-71: the questions with this hash that have an answer
CachedQuestions(question_hash) ==
    {q \in QIds : questions[q].question_hash = question_hash /\ answers[q] # NoRow}

\* caching.py 55-77 finding nothing: a lookup that always misses
FindNoAnswer(question_hash) == NoRow

\* caching.py 55-77 ordering by generated_at instead of -generated_at: the
\* answer generated first among them
FindOldestAnswer(question_hash) ==
    LET found == CachedQuestions(question_hash)
    IN  IF found = {} THEN NoRow
        ELSE answers[CHOOSE q \in found :
                \A o \in found : answers[q].generated_at <= answers[o].generated_at]

\* caching.py 55-77: the answer with the latest generated_at among them, None
\* when there is none
find_cached_answer(question_hash) ==
    LET found == CachedQuestions(question_hash)
    IN  IF found = {} THEN NoRow
        ELSE answers[CHOOSE q \in found :
                \A o \in found : answers[o].generated_at <= answers[q].generated_at]

\* rag_pipeline.py 242: the fixed answer when no context was found
Placeholder == "I don't have enough information in the knowledge base to answer this question."

\* What AnswerGenerator.generate_answer can return: the text and the parsed
\* confidence
Generations ==
    {[answer |-> "answer one", confidence_score |-> "0.9"]}

\* The result of a call of generate_answer: raised tells that it raised
\* instead of returning; embedded, searched and generated tell which of the
\* embedding model, the index and the generator the call used; search_failed
\* that the index query raised inside search(), nearest what the index
\* answered.
Result(answer, confidence, chunks, cached, note) ==
    [raised |-> FALSE, error |-> "", answer |-> answer,
     confidence_score |-> confidence, source_chunks |-> chunks,
     metadata |-> [cached |-> cached, note |-> note],
     embedded |-> FALSE, searched |-> FALSE, generated |-> FALSE,
     search_failed |-> FALSE, nearest |-> <<>>]

Raised(error) ==
    [Result("", "None", {}, FALSE, "") EXCEPT !.raised = TRUE, !.error = error]

\* rag_pipeline.py 212-232: the cached answer as a result: its text, its
\* confidence, its source chunks, its metadata with cached = True
CacheHit(cached_answer) ==
    Result(cached_answer.answer_text, cached_answer.confidence_score,
           cached_answer.source_chunks, TRUE, cached_answer.metadata.note)

\* rag_pipeline.py 234-262 on a search() that lets the exception of the
\* index query through (vector_store.py 129-131 left out): the call raises
GenerateFreshSearchRaising(top_k) ==
    LET contexts == retrieve_context(top_k, DefaultThreshold)
    IN  {[Raised("search failed")
             EXCEPT !.embedded = TRUE, !.searched = TRUE, !.search_failed = TRUE] :
           c \in {x \in contexts : x.failed}}

\* rag_pipeline.py 234-262: the cache missed or is off. embed_text may raise;
\* with no context chunk the placeholder is returned; otherwise the generator
\* is called, and may raise
GenerateFresh(top_k) ==
    LET contexts == retrieve_context(top_k, DefaultThreshold)
        empty == {c \in contexts : c.chunks = <<>>}
        found == {c \in contexts : c.chunks # <<>>}
    IN  {[Raised("embedding failed") EXCEPT !.embedded = TRUE]}
        \cup {[Result(Placeholder, "0.0", {}, FALSE, "No relevant context found")
                  EXCEPT !.embedded = TRUE, !.searched = TRUE,
                         !.search_failed = c.failed, !.nearest = c.nearest] :
                c \in empty}
        \cup {[Result(g.answer, g.confidence_score, {e[1] : e \in Range(c.chunks)},
                      FALSE, "model")
                  EXCEPT !.embedded = TRUE, !.searched = TRUE, !.generated = TRUE,
                         !.nearest = c.nearest] :
                c \in found, g \in Generations}
        \cup {[Raised("generation failed")
                  EXCEPT !.embedded = TRUE, !.searched = TRUE, !.generated = TRUE,
                         !.nearest = c.nearest] :
                c \in found}

\* rag_pipeline.py 205-262 with the cache lookup of 206-232 left out
GenerateIgnoringCache(question_text, top_k, use_cache) == GenerateFresh(top_k)

\* RAGPipeline.generate_answer: every result the call can have in this state
generate_answer(question_text, top_k, use_cache) ==
    LET cached_answer == find_cached_answer(generate_question_hash(question_text))
    IN  IF use_cache /\ cached_answer # NoRow
        THEN {CacheHit(cached_answer)}
        ELSE GenerateFresh(top_k)

(***************************************************************************)
(* The answering tasks and endpoint: tasks.generate_answers_async,         *)
(* tasks.regenerate_answer_async and QuestionViewSet.regenerate_answer.    *)
(***************************************************************************)

\* The number of answering requests submitted.
MaxRequests == 2

Requests == 1..MaxRequests

\* A request in the queue and the locals of its body: idx and total are the
\* loop's, result what generate_answer returned, inst the Answer instance the
\* body holds (both dropped once the body reads them no more), created and
\* cached the counters of the batch; asked lists the questions
\* generate_answer was called for.
QueuedRequest(kind, arg) ==
    [kind |-> kind, arg |-> arg, pc |-> "queued", idx |-> 0, total |-> 0,
     result |-> NoRow, inst |-> NoRow, error |-> "", created |-> 0,
     cached |-> 0, asked |-> <<>>]

\* The requests that can be submitted: a batch for any RFP or for an id no RFP
\* has, a regeneration of q3 by either path, a regeneration task for an id no
\* question has.
RequestKinds ==
    <<<<"generate_answers_async", "r0">>, <<"generate_answers_async", "r1">>,
      <<"generate_answers_async", "r2">>, <<"generate_answers_async", "missing">>,
      <<"regenerate_answer_async", "q3">>, <<"regenerate_answer_async", "missing">>,
      <<"regenerate_answer", "q3">>>>

\* The submitted requests, whose ids are interchangeable, numbered in the
\* order of RequestKinds.
Submissions ==
    {[t \in Requests |-> QueuedRequest(RequestKinds[f[t]][1], RequestKinds[f[t]][2])] :
        f \in {g \in [Requests -> DOMAIN RequestKinds] :
                  \A i, j \in Requests : i < j => g[i] <= g[j]}}

\* The state after d1 was ingested into one chunk and the RFPs were created
\* through RFPCreateSerializer.create (serializers.py 106-117).
AnswerInit ==
    /\ text = <<>>
    /\ normalized = <<>>
    /\ documents = [d \in DocIds |->
           IF d \in Docs
           THEN [NewDocument EXCEPT !.processing_status = "completed",
                                    !.processed = TRUE, !.chunk_count = 1]
           ELSE NoRow]
    /\ docChunks = [d \in Docs |-> 1]
    /\ chunkRows = {<<d, 0>> : d \in Docs}
    /\ collection = {ChunkId(d, 0) : d \in Docs}
    /\ rfps = [r \in RfpIds \cup {"missing"} |->
           IF r \in RfpIds THEN [status |-> "pending"] ELSE NoRow]
    /\ questions = [q \in QIds \cup {"missing"} |->
           CASE q = "q1" -> NewQuestion("r1", 1, <<"A", "?">>)
             [] q = "q2" -> NewQuestion("r1", 2, <<"b">>)
             [] q = "q3" -> NewQuestion("r2", 1, <<"a">>)
             [] OTHER -> NoRow]
    /\ answers = [q \in QIds |-> NoRow]
    /\ now = 0
    /\ call = NoRow
    /\ returned = <<>>
    /\ taskStatus = [t \in Requests |-> NoRow]
    /\ task \in Submissions

AnswerUnchanged ==
    UNCHANGED <<text, normalized, documents, docChunks, chunkRows, collection,
                questions, call, returned>>

RECURSIVE SortByNumber(_)
\* models.py 94: ordering = ['rfp', 'question_number']
SortByNumber(qs) ==
    IF qs = {} THEN <<>>
    ELSE LET first == CHOOSE q \in qs : \A o \in qs :
                          questions[q].question_number <= questions[o].question_number
         IN  <<first>> \o SortByNumber(qs \ {first})

\* rfp.questions.all()
RfpQuestions(r) == SortByNumber({q \in QIds : questions[q].rfp = r})

\* tasks.py 173 counting the questions still to answer
RemainingShare(idx, total) == ((total - idx) * 100) \div total

\* tasks.py 173: int((idx / total_questions) * 100)
Progress(idx, total) == (idx * 100) \div total

\* DocumentChunk.objects.filter(chromadb_id__in=chunk_ids)
ChunksWithIds(chunk_ids) ==
    {id \in chunk_ids : \E k \in chunkRows : ChunkId(k[1], k[2]) = id}

\* Answer.objects.create(question, answer_text, confidence_score, metadata,
\* cached): regenerated_count 0, generated_at stamped (auto_now_add)
NewAnswer(result) ==
    [answer_text |-> result.answer, confidence_score |-> result.confidence_score,
     metadata |-> result.metadata, cached |-> result.metadata.cached,
     regenerated_count |-> 0, generated_at |-> now, source_chunks |-> {}]

\* answer.source_chunks.set(chunks), which tasks.py 205 and 303 and views.py
\* 260 run only for a result that has source chunks
LinkChunks(row, result) ==
    IF result.source_chunks # {}
    THEN [row EXCEPT !.source_chunks = ChunksWithIds(result.source_chunks)]
    ELSE row

\* tasks.py 136-148
BatchStart(t) ==
    /\ task[t].kind = "generate_answers_async"
    /\ task[t].pc = "queued"
    /\ IF rfps[task[t].arg] = NoRow
       THEN /\ task' = [task EXCEPT ![t].pc = "raised", ![t].error = "RFP not found"]
            /\ UNCHANGED taskStatus
       ELSE /\ task' = [task EXCEPT ![t].pc = "b_mark"]
            /\ taskStatus' = [taskStatus EXCEPT ![t] =
                                 NewTaskStatus("answer_generation", 0)]
    /\ UNCHANGED <<rfps, answers, now>>
    /\ AnswerUnchanged

\* tasks.py 150-152: rfp.status = 'processing'; rfp.save()
BatchMarkRfp(t) ==
    /\ task[t].kind = "generate_answers_async"
    /\ task[t].pc = "b_mark"
    /\ rfps' = [rfps EXCEPT ![task[t].arg].status = "processing"]
    /\ task' = [task EXCEPT ![t].pc = "b_count"]
    /\ UNCHANGED <<taskStatus, answers, now>>
    /\ AnswerUnchanged

\* tasks.py 154-162 without the check of 158-159: with no question the loop
\* runs zero times
BatchCountUnchecked(t) ==
    /\ task[t].kind = "generate_answers_async"
    /\ task[t].pc = "b_count"
    /\ LET total_questions == Len(RfpQuestions(task[t].arg))
       IN  /\ task' = [task EXCEPT
                  ![t].pc = IF total_questions = 0 THEN "b_done" ELSE "b_progress",
                  ![t].idx = 1, ![t].total = total_questions]
           /\ SaveTaskStatus(t, [total_steps |-> total_questions])
    /\ UNCHANGED <<rfps, answers, now>>
    /\ AnswerUnchanged

\* tasks.py 154-162: no question raises; otherwise total_steps is saved
BatchCount(t) ==
    /\ task[t].kind = "generate_answers_async"
    /\ task[t].pc = "b_count"
    /\ LET total_questions == Len(RfpQuestions(task[t].arg))
       IN  IF total_questions = 0
           THEN /\ task' = [task EXCEPT ![t].pc = "b_fail",
                                   ![t].error = "No questions found for this RFP"]
                /\ UNCHANGED taskStatus
           ELSE /\ task' = [task EXCEPT ![t].pc = "b_progress", ![t].idx = 1,
                                   ![t].total = total_questions]
                /\ SaveTaskStatus(t, [total_steps |-> total_questions])
    /\ UNCHANGED <<rfps, answers, now>>
    /\ AnswerUnchanged

\* tasks.py 171-175: the progress of the question about to be answered
BatchProgress(t) ==
    /\ task[t].kind = "generate_answers_async"
    /\ task[t].pc = "b_progress"
    /\ SaveTaskStatus(t, [progress |-> Progress(task[t].idx, task[t].total)])
    /\ task' = [task EXCEPT ![t].pc = "b_generate"]
    /\ UNCHANGED <<rfps, answers, now>>
    /\ AnswerUnchanged

\* tasks.py 177-183: pipeline.generate_answer(..., use_cache=True); nothing in
\* the loop catches what it raises, so the handler of 244 gets it
BatchGenerate(t) ==
    /\ task[t].kind = "generate_answers_async"
    /\ task[t].pc = "b_generate"
    /\ LET question == RfpQuestions(task[t].arg)[task[t].idx]
       IN  \E result \in generate_answer(questions[question].question_text,
                                         DefaultTopK, TRUE) :
               IF result.raised
               THEN task' = [task EXCEPT ![t].pc = "b_fail",
                                         ![t].error = result.error,
                                         ![t].asked = Append(@, question)]
               ELSE task' = [task EXCEPT ![t].pc = "b_persist",
                                         ![t].result = result,
                                         ![t].asked = Append(@, question)]
    /\ UNCHANGED <<taskStatus, rfps, answers, now>>
    /\ AnswerUnchanged

\* tasks.py 185-209: Answer.objects.get_or_create(question, defaults) leaves an
\* existing row as it is; the source chunks are set for a result that has some
BatchPersist(t) ==
    /\ task[t].kind = "generate_answers_async"
    /\ task[t].pc = "b_persist"
    /\ LET question == RfpQuestions(task[t].arg)[task[t].idx]
           result == task[t].result
           created == answers[question] = NoRow
           row == IF created THEN NewAnswer(result) ELSE answers[question]
       IN  /\ answers' = [answers EXCEPT ![question] = LinkChunks(row, result)]
           /\ now' = IF created THEN now + 1 ELSE now
           /\ task' = [task EXCEPT
                  ![t].pc = IF task[t].idx = task[t].total
                            THEN "b_done" ELSE "b_progress",
                  ![t].idx = @ + 1,
                  ![t].result = NoRow,
                  ![t].created = IF created THEN @ + 1 ELSE @,
                  ![t].cached = IF result.metadata.cached THEN @ + 1 ELSE @]
    /\ UNCHANGED <<taskStatus, rfps>>
    /\ AnswerUnchanged

\* tasks.py 211-213: rfp.status = 'completed'; rfp.save()
BatchFinishRfp(t) ==
    /\ task[t].kind = "generate_answers_async"
    /\ task[t].pc = "b_done"
    /\ rfps' = [rfps EXCEPT ![task[t].arg].status = "completed"]
    /\ task' = [task EXCEPT ![t].pc = "b_success"]
    /\ UNCHANGED <<taskStatus, answers, now>>
    /\ AnswerUnchanged

\* tasks.py 215-233
BatchFinishTask(t) ==
    /\ task[t].kind = "generate_answers_async"
    /\ task[t].pc = "b_success"
    /\ SaveTaskStatus(t, [status |-> "SUCCESS", progress |-> 100,
                          completed_at |-> TRUE,
                          result |-> [total_questions |-> task[t].total,
                                      answers_created |-> task[t].created,
                                      answers_cached |-> task[t].cached]])
    /\ task' = [task EXCEPT ![t].pc = "returned"]
    /\ UNCHANGED <<rfps, answers, now>>
    /\ AnswerUnchanged

\* tasks.py 244-254: the handler saves FAILURE, the error and completed_at
BatchFailTask(t) ==
    /\ task[t].kind = "generate_answers_async"
    /\ task[t].pc = "b_fail"
    /\ SaveTaskStatus(t, [status |-> "FAILURE", error |-> task[t].error,
                          completed_at |-> TRUE])
    /\ task' = [task EXCEPT ![t].pc = "b_fail_rfp"]
    /\ UNCHANGED <<rfps, answers, now>>
    /\ AnswerUnchanged

\* tasks.py 256-264 of a task whose loop runs in a transaction
\* (transaction.atomic around 171-209): the answers it wrote are rolled back
BatchFailRfpRollingBack(t) ==
    /\ task[t].kind = "generate_answers_async"
    /\ task[t].pc = "b_fail_rfp"
    /\ rfps' = [rfps EXCEPT ![task[t].arg].status = "failed"]
    /\ answers' = [q \in QIds |->
           IF questions[q].rfp = task[t].arg THEN NoRow ELSE answers[q]]
    /\ task' = [task EXCEPT ![t].pc = "raised"]
    /\ UNCHANGED <<taskStatus, now>>
    /\ AnswerUnchanged

\* tasks.py 256-264: rfp.status = 'failed'; rfp.save(); raise
BatchFailRfp(t) ==
    /\ task[t].kind = "generate_answers_async"
    /\ task[t].pc = "b_fail_rfp"
    /\ rfps' = [rfps EXCEPT ![task[t].arg].status = "failed"]
    /\ task' = [task EXCEPT ![t].pc = "raised"]
    /\ UNCHANGED <<taskStatus, answers, now>>
    /\ AnswerUnchanged

\* tasks.generate_answers_async, step by step
generate_answers_async(t) ==
    \/ BatchStart(t)
    \/ BatchMarkRfp(t)
    \/ BatchCount(t)
    \/ BatchProgress(t)
    \/ BatchGenerate(t)
    \/ BatchPersist(t)
    \/ BatchFinishRfp(t)
    \/ BatchFinishTask(t)
    \/ BatchFailTask(t)
    \/ BatchFailRfp(t)

\* tasks.py 278-291: Question.objects.get, then
\* pipeline.generate_answer(..., use_cache=False); whatever is raised leaves
\* the task (316-320)
RegenGenerate(t) ==
    /\ task[t].kind = "regenerate_answer_async"
    /\ task[t].pc = "queued"
    /\ IF questions[task[t].arg] = NoRow
       THEN task' = [task EXCEPT ![t].pc = "raised",
                                 ![t].error = "Question not found"]
       ELSE \E result \in generate_answer(questions[task[t].arg].question_text,
                                          DefaultTopK, FALSE) :
               task' = [task EXCEPT
                           ![t].pc = IF result.raised THEN "raised" ELSE "r_load",
                           ![t].error = result.error,
                           ![t].result = IF result.raised THEN NoRow ELSE result,
                           ![t].asked = Append(@, task[t].arg)]
    /\ UNCHANGED <<taskStatus, rfps, answers, now>>
    /\ AnswerUnchanged

\* tasks.py 294: answer = question.answer raises for a question without one
RegenLoad(t) ==
    /\ task[t].kind = "regenerate_answer_async"
    /\ task[t].pc = "r_load"
    /\ IF answers[task[t].arg] = NoRow
       THEN task' = [task EXCEPT ![t].pc = "raised", ![t].result = NoRow,
                                 ![t].error = "Question has no answer"]
       ELSE task' = [task EXCEPT ![t].pc = "r_save", ![t].inst = answers[task[t].arg]]
    /\ UNCHANGED <<taskStatus, rfps, answers, now>>
    /\ AnswerUnchanged

\* What answer.save() writes for the instance inst after the assignments of
\* tasks.py 295-299 and views.py 251-255: the fields of the instance; the
\* source chunks are rows of their own, which save() leaves alone
SavedAnswer(inst, result, cached, current) ==
    [inst EXCEPT !.answer_text = result.answer,
                 !.confidence_score = result.confidence_score,
                 !.metadata = result.metadata,
                 !.cached = cached,
                 !.regenerated_count = @ + 1,
                 !.source_chunks = current.source_chunks]

\* tasks.py 295-307
RegenSave(t) ==
    /\ task[t].kind = "regenerate_answer_async"
    /\ task[t].pc = "r_save"
    /\ answers' = [answers EXCEPT ![task[t].arg] =
           LinkChunks(SavedAnswer(task[t].inst, task[t].result, FALSE, @),
                      task[t].result)]
    /\ task' = [task EXCEPT ![t].pc = "returned", ![t].result = NoRow,
                             ![t].inst = NoRow]
    /\ UNCHANGED <<taskStatus, rfps, now>>
    /\ AnswerUnchanged

\* tasks.regenerate_answer_async, step by step
regenerate_answer_async(t) ==
    \/ RegenGenerate(t)
    \/ RegenLoad(t)
    \/ RegenSave(t)

\* views.py 225-237 and 271-275: generate_answer is called without use_cache,
\* which is True by default; what it raises becomes the 500 response
EndpointGenerate(t) ==
    /\ task[t].kind = "regenerate_answer"
    /\ task[t].pc = "queued"
    /\ \E result \in generate_answer(questions[task[t].arg].question_text,
                                     DefaultTopK, TRUE) :
           task' = [task EXCEPT
                       ![t].pc = IF result.raised THEN "response_500" ELSE "e_get",
                       ![t].error = result.error,
                       ![t].result = IF result.raised THEN NoRow ELSE result,
                       ![t].asked = Append(@, task[t].arg)]
    /\ UNCHANGED <<taskStatus, rfps, answers, now>>
    /\ AnswerUnchanged

\* views.py 240-248 and 258-262: Answer.objects.get_or_create; a created answer
\* gets its source chunks and is returned
EndpointGetOrCreate(t) ==
    /\ task[t].kind = "regenerate_answer"
    /\ task[t].pc = "e_get"
    /\ IF answers[task[t].arg] = NoRow
       THEN /\ answers' = [answers EXCEPT ![task[t].arg] =
                   LinkChunks(NewAnswer(task[t].result), task[t].result)]
            /\ now' = now + 1
            /\ task' = [task EXCEPT ![t].pc = "returned", ![t].result = NoRow]
       ELSE /\ task' = [task EXCEPT ![t].pc = "e_save",
                                    ![t].inst = answers[task[t].arg]]
            /\ UNCHANGED <<answers, now>>
    /\ UNCHANGED <<taskStatus, rfps>>
    /\ AnswerUnchanged

\* views.py 250-262: the existing answer is updated, cached = is_cached
EndpointSave(t) ==
    /\ task[t].kind = "regenerate_answer"
    /\ task[t].pc = "e_save"
    /\ answers' = [answers EXCEPT ![task[t].arg] =
           LinkChunks(SavedAnswer(task[t].inst, task[t].result,
                                  task[t].result.metadata.cached, @),
                      task[t].result)]
    /\ task' = [task EXCEPT ![t].pc = "returned", ![t].result = NoRow,
                             ![t].inst = NoRow]
    /\ UNCHANGED <<taskStatus, rfps, now>>
    /\ AnswerUnchanged

\* QuestionViewSet.regenerate_answer, step by step
regenerate_answer(t) ==
    \/ EndpointGenerate(t)
    \/ EndpointGetOrCreate(t)
    \/ EndpointSave(t)

AnswerNext ==
    \E t \in Requests :
        \/ generate_answers_async(t)
        \/ regenerate_answer_async(t)
        \/ regenerate_answer(t)

AnswerSpec == AnswerInit /\ [][AnswerNext]_vars

(***************************************************************************)
(* Claims about answering.                                                 *)
(***************************************************************************)

\* A batch task whose body has ended, on an RFP that has questions.
BatchExited(t) ==
    /\ task[t].kind = "generate_answers_async"
    /\ task[t].pc \in {"returned", "raised"}
    /\ task[t].total > 0

\* The questions that have an answer and whose stored hash is that of the text.
AnsweredWithHashOf(question_text) ==
    LET question_hash == generate_question_hash(question_text)
    IN  {o \in QIds : answers[o] # NoRow /\ questions[o].question_hash = question_hash}

\* C2: when answering one question of a batch raises, the questions after it
\* are still answered: a batch task that has ended has called generate_answer
\* for every question of its RFP.
C2_SiblingsStillProcessed ==
    \A t \in Requests :
        BatchExited(t) => Len(task[t].asked) = task[t].total

\* C4: with the cache enabled, when some question that has an answer has the
\* hash of the asked text, generate_answer returns the text, the confidence and
\* the source chunks of such an answer with cached = true, and neither embeds,
\* searches nor generates.
C4_CacheHitReturnsStored ==
    \A q \in QIds :
        LET stored == AnsweredWithHashOf(questions[q].question_text)
        IN  stored # {} =>
                \A r \in generate_answer(questions[q].question_text, DefaultTopK, TRUE) :
                    /\ ~r.raised
                    /\ \E o \in stored :
                           /\ r.answer = answers[o].answer_text
                           /\ r.confidence_score = answers[o].confidence_score
                           /\ r.source_chunks = answers[o].source_chunks
                    /\ r.metadata.cached
                    /\ ~r.embedded /\ ~r.searched /\ ~r.generated

\* The batch on r2 holds, for q3, the answer that was stored for q1.
C4_Witness ==
    \E t \in Requests :
        /\ task[t].kind = "generate_answers_async"
        /\ task[t].arg = "r2"
        /\ task[t].pc = "b_persist"
        /\ task[t].result.metadata.cached
        /\ answers["q3"] = NoRow
        /\ answers["q1"] # NoRow
        /\ task[t].result.answer = answers["q1"].answer_text

\* C8: when the cache is off or misses and the index was searched without any
\* entry reaching the threshold, generate_answer returns the placeholder with
\* confidence 0.0 and no source chunk, and the generator is not called.
C8_NoContextGivesPlaceholder ==
    \A q \in QIds, use_cache \in BOOLEAN :
        (~use_cache \/ AnsweredWithHashOf(questions[q].question_text) = {}) =>
            \A r \in generate_answer(questions[q].question_text, DefaultTopK, use_cache) :
                (/\ r.searched
                 /\ \A e \in Range(r.nearest) : Similarity(e[2]) < DefaultThreshold)
                => /\ ~r.raised
                   /\ r.answer = Placeholder
                   /\ r.confidence_score = "0.0"
                   /\ r.source_chunks = {}
                   /\ ~r.generated

\* A request holds the placeholder after the index answered with an entry
\* below the threshold.
C8_Witness ==
    \E t \in Requests :
        /\ task[t].result # NoRow
        /\ task[t].result.searched
        /\ task[t].result.nearest # <<>>
        /\ \A e \in Range(task[t].result.nearest) : Similarity(e[2]) < DefaultThreshold
        /\ task[t].result.answer = Placeholder

\* C9: every regeneration of an existing answer that completes, by the task or
\* by the endpoint, adds exactly 1 to regenerated_count and leaves cached false.
C9_RegenerationCountsAndUncaches ==
    [][\A t \in Requests :
          (task[t].pc \in {"r_save", "e_save"} /\ task'[t].pc = "returned") =>
              /\ answers'[task[t].arg].regenerated_count =
                     answers[task[t].arg].regenerated_count + 1
              /\ answers'[task[t].arg].cached = FALSE]_vars

(***************************************************************************)
(* The questions on their own: created with an RFP                         *)
(* (RFPCreateSerializer.create) and edited through QuestionViewSet.        *)
(***************************************************************************)

\* The texts a question is given; the serializers' CharField has trimmed them.
QuestionTexts == {<<"A", "?">>, <<"a">>, <<"b">>}

\* The RFP and the number of each question.
QuestionKey(q) ==
    CASE q = "q1" -> <<"r1", 1>>
      [] q = "q2" -> <<"r1", 2>>
      [] q = "q3" -> <<"r2", 1>>

QuestionInit ==
    /\ text = <<>>
    /\ normalized = <<>>
    /\ documents = [d \in DocIds |-> NoRow]
    /\ docChunks = [d \in Docs |-> 0]
    /\ chunkRows = {}
    /\ collection = {}
    /\ taskStatus = [t \in Tasks |-> NoRow]
    /\ task = [t \in Tasks |-> NoRow]
    /\ rfps = [r \in RfpIds \cup {"missing"} |->
           IF r \in RfpIds THEN [status |-> "pending"] ELSE NoRow]
    /\ questions = [q \in QIds \cup {"missing"} |-> NoRow]
    /\ answers = [q \in QIds |-> NoRow]
    /\ now = 0
    /\ call = NoRow
    /\ returned = <<>>

QuestionUnchanged ==
    UNCHANGED <<text, normalized, documents, docChunks, chunkRows, collection,
                taskStatus, task, rfps, answers, now, call, returned>>

\* serializers.py 113-115: Question.objects.create(rfp=rfp, **question_data)
QuestionCreate(q) ==
    /\ questions[q] = NoRow
    /\ \E question_text \in QuestionTexts :
           questions' = [questions EXCEPT ![q] =
               NewQuestion(QuestionKey(q)[1], QuestionKey(q)[2], question_text)]
    /\ QuestionUnchanged

\* QuestionViewSet (views.py 196-205) update / partial_update with
\* QuestionSerializer (serializers.py 67-77): question_text is writable,
\* question_hash is not a field; the instance is saved with its new text
QuestionUpdate(q) ==
    /\ questions[q] # NoRow
    /\ \E question_text \in QuestionTexts :
           questions' = [questions EXCEPT ![q] =
               QuestionSave([@ EXCEPT !.question_text = question_text])]
    /\ QuestionUnchanged

QuestionNext ==
    \E q \in QIds :
        \/ QuestionCreate(q)
        \/ QuestionUpdate(q)

QuestionSpec == QuestionInit /\ [][QuestionNext]_vars

\* C11: the question_hash of every stored question is the hash of its
\* current question_text.
C11_HashFollowsText ==
    \A q \in QIds :
        questions[q] # NoRow =>
            questions[q].question_hash =
                generate_question_hash(questions[q].question_text)

(***************************************************************************)
(* The answer cache on its own: single questions are answered through the  *)
(* endpoint and regenerated by the task, one request after the other.      *)
(***************************************************************************)

\* The number of times one answer is regenerated.
MaxRegenerations == 2

CacheInit ==
    /\ text = <<>>
    /\ normalized = <<>>
    /\ documents = [d \in DocIds |->
           IF d \in Docs
           THEN [NewDocument EXCEPT !.processing_status = "completed",
                                    !.processed = TRUE, !.chunk_count = 1]
           ELSE NoRow]
    /\ docChunks = [d \in Docs |-> 1]
    /\ chunkRows = {<<d, 0>> : d \in Docs}
    /\ collection = {ChunkId(d, 0) : d \in Docs}
    /\ rfps = [r \in RfpIds \cup {"missing"} |->
           IF r \in RfpIds THEN [status |-> "pending"] ELSE NoRow]
    /\ questions = [q \in QIds \cup {"missing"} |->
           IF q \in QIds
           THEN NewQuestion(QuestionKey(q)[1], QuestionKey(q)[2],
                            IF q = "q2" THEN <<"b">> ELSE <<"a">>)
           ELSE NoRow]
    /\ answers = [q \in QIds |-> NoRow]
    /\ now = 0
    /\ call = NoRow
    /\ returned = <<>>
    /\ taskStatus = [t \in Requests |-> NoRow]
    /\ task = [t \in Requests |-> NoRow]

CacheUnchanged ==
    UNCHANGED <<text, normalized, documents, docChunks, chunkRows, collection,
                taskStatus, task, rfps, questions, call, returned>>

\* views.py 207-275 run from its first line to its last: generate_answer with
\* the cache on, then the answer is created, or updated when the question
\* has one; a call that raises changes nothing
AnswerByEndpoint(q) ==
    /\ \E result \in generate_answer(questions[q].question_text, DefaultTopK, TRUE) :
          /\ ~result.raised
          /\ IF answers[q] = NoRow
             THEN /\ answers' = [answers EXCEPT ![q] =
                         LinkChunks(NewAnswer(result), result)]
                  /\ now' = now + 1
             ELSE /\ answers[q].regenerated_count < MaxRegenerations
                  /\ answers' = [answers EXCEPT ![q] =
                         LinkChunks(SavedAnswer(@, result, result.metadata.cached, @),
                                    result)]
                  /\ UNCHANGED now
    /\ CacheUnchanged

\* tasks.py 267-320 run from its first line to its last: generate_answer with
\* the cache off, then the existing answer is updated
RegenerateByTask(q) ==
    /\ answers[q] # NoRow
    /\ answers[q].regenerated_count < MaxRegenerations
    /\ \E result \in generate_answer(questions[q].question_text, DefaultTopK, FALSE) :
          /\ ~result.raised
          /\ answers' = [answers EXCEPT ![q] =
                 LinkChunks(SavedAnswer(@, result, FALSE, @), result)]
    /\ UNCHANGED now
    /\ CacheUnchanged

CacheNext ==
    \E q \in QIds :
        \/ AnswerByEndpoint(q)
        \/ RegenerateByTask(q)

CacheSpec == CacheInit /\ [][CacheNext]_vars

\* C12: find_cached_answer returns the most recently generated answer among
\* the questions with the hash: an answer that was just created or
\* regenerated by a fresh generation is the one returned for its question's
\* hash.
C12_LookupReturnsLatestGenerated ==
    [][\A q \in QIds :
          (answers'[q] # answers[q] /\ ~answers'[q].cached) =>
              find_cached_answer(questions[q].question_hash)' = answers'[q]]_vars

(***************************************************************************)
(* The job records of both kinds of job: the ingestion tasks on their      *)
(* document, or the answering requests on their RFPs and questions.        *)
(***************************************************************************)

JobInit == IngestInit \/ AnswerInit

\* The state is one of ingestion: no RFP has been created.
Ingesting == DOMAIN rfps = {}

JobNext ==
    \/ Ingesting /\ IngestNext
    \/ ~Ingesting /\ AnswerNext

JobSpec == JobInit /\ [][JobNext]_vars

\* The jobs that have a TaskStatus row.
Recorded == {t \in DOMAIN taskStatus : taskStatus[t] # NoRow}

TerminalStatus == {"SUCCESS", "FAILURE"}

\* C13: a TaskStatus row has completed_at exactly when its status is SUCCESS
\* or FAILURE, and the status of a row that is SUCCESS or FAILURE never
\* changes again.
C13_TerminalOnceAndStamped ==
    /\ [](\A t \in Recorded :
            taskStatus[t].completed_at <=> taskStatus[t].status \in TerminalStatus)
    /\ [][\A t \in Recorded :
            taskStatus[t].status \in TerminalStatus =>
                taskStatus'[t].status = taskStatus[t].status]_vars

\* A batch job has failed, its row has completed_at and its worker has left.
C13_Witness ==
    \E t \in Recorded :
        /\ taskStatus[t].status = "FAILURE"
        /\ taskStatus[t].completed_at
        /\ taskStatus[t].task_type = "answer_generation"
        /\ task[t].pc = "raised"

\* The number of questions whose answer batch task t has generated and
\* persisted: the loop is at question idx.
Completed(t) == IF task[t].idx = 0 THEN 0 ELSE task[t].idx - 1

\* C14: while a batch task answers the questions of its RFP, the progress of
\* its TaskStatus row is floor(completed / total * 100), completed being the
\* number of questions already answered and persisted.
C14_ProgressIsCompletedShare ==
    \A t \in Requests :
        (/\ task[t].kind = "generate_answers_async"
         /\ task[t].total > 0
         /\ task[t].pc \in {"b_progress", "b_generate", "b_persist", "b_done",
                            "b_success", "returned"})
        => taskStatus[t].progress = (Completed(t) * 100) \div task[t].total

\* C15: the progress of a TaskStatus row is between 0 and 100, and a save to
\* a row that is not yet SUCCESS or FAILURE never lowers it.
C15_ProgressBoundedMonotone ==
    /\ [](\A t \in Recorded :
            taskStatus[t].progress >= 0 /\ taskStatus[t].progress <= 100)
    /\ [][\A t \in Recorded :
            taskStatus[t].status \notin TerminalStatus =>
                taskStatus'[t].progress >= taskStatus[t].progress]_vars

\* A batch task is at its second question, its row raised from 50 to 100.
C15_Witness ==
    \E t \in Recorded :
        /\ taskStatus[t].task_type = "answer_generation"
        /\ taskStatus[t].status = "STARTED"
        /\ task[t].total = 2
        /\ task[t].idx = 2
        /\ task[t].pc = "b_generate"
        /\ taskStatus[t].progress = 100

\* Request t is a batch on an RFP that has no question.
EmptyBatch(t) ==
    /\ task[t].kind = "generate_answers_async"
    /\ rfps[task[t].arg] # NoRow
    /\ RfpQuestions(task[t].arg) = <<>>

\* C16: a batch task on an RFP without questions never reaches the loop: it
\* calls generate_answer for no question, creates no answer and does not
\* return; when it leaves, its row is FAILURE with an error message and the
\* step before has saved the RFP as failed.
C16_EmptyRfpAborts ==
    /\ [](\A t \in Requests :
            EmptyBatch(t) =>
                /\ task[t].pc \in {"queued", "b_mark", "b_count", "b_fail",
                                   "b_fail_rfp", "raised"}
                /\ task[t].asked = <<>>
                /\ task[t].created = 0
                /\ task[t].pc = "raised" =>
                       /\ taskStatus[t].status = "FAILURE"
                       /\ taskStatus[t].error # "")
    /\ [][\A t \in Requests :
            (EmptyBatch(t) /\ task[t].pc # "raised" /\ task'[t].pc = "raised") =>
                /\ rfps'[task[t].arg].status = "failed"
                /\ answers' = answers]_vars

\* The batch on r0 has left: FAILURE, and the RFP failed.
C16_Witness ==
    \E t \in Requests :
        /\ EmptyBatch(t)
        /\ task[t].pc = "raised"
        /\ taskStatus[t].status = "FAILURE"
        /\ taskStatus[t].error = "No questions found for this RFP"
        /\ rfps[task[t].arg].status = "failed"

(***************************************************************************)
(* VectorStore.search on its own: one call, on an index that answers the   *)
(* query with a distance for each entry.                                   *)
(***************************************************************************)

\* The largest top_k asked for.
MaxTopK == 2

\* The entries of the index.
SearchIds == {"c1", "c2"}

\* The distances of an entry from the query, in tenths: the default metric of
\* the collection (vector_store.py 43-46 names none) is not bounded by 2.
SearchDistances == {0, 10, 14, 16, 20, 30}

\* The thresholds asked for, in twentieths: 0, 0.3, 0.7 and 1
\* (serializers.py 134: min_value=0.0, max_value=1.0).
Thresholds == {0, 6, 14, 20}

\* collection.query(n_results=top_k) on an index that gives entry id the
\* distance index[id]: the top_k nearest entries, nearest first
Nearest(index, top_k) ==
    {r \in [1..Min(top_k, Cardinality(DOMAIN index)) -> (DOMAIN index) \X SearchDistances] :
        /\ \A i \in DOMAIN r : r[i][2] = index[r[i][1]]
        /\ \A i, j \in DOMAIN r : i < j => r[i][1] # r[j][1] /\ r[i][2] <= r[j][2]
        /\ \A i \in DOMAIN r, id \in DOMAIN index :
               (\A j \in DOMAIN r : r[j][1] # id) => r[i][2] <= index[id]}

SearchInit ==
    /\ text = <<>>
    /\ normalized = <<>>
    /\ documents = [d \in DocIds |-> NoRow]
    /\ docChunks = [d \in Docs |-> 0]
    /\ chunkRows = {}
    /\ collection = {}
    /\ taskStatus = [t \in Tasks |-> NoRow]
    /\ task = [t \in Tasks |-> NoRow]
    /\ rfps = <<>>
    /\ questions = <<>>
    /\ answers = <<>>
    /\ now = 0
    /\ call \in [top_k : 1..MaxTopK, similarity_threshold : Thresholds,
                 index : [SearchIds -> SearchDistances]]
    /\ returned = <<>>

SearchUnchanged ==
    UNCHANGED <<text, normalized, documents, docChunks, chunkRows, collection,
                taskStatus, task, rfps, questions, answers, now, call>>

\* vector_store.py 101-128: the query is answered and the answer filtered
Search ==
    /\ returned = <<>>
    /\ \E results \in Nearest(call.index, call.top_k) :
           returned' = <<search(results, call.similarity_threshold)>>
    /\ SearchUnchanged

\* vector_store.py 129-131: the query raises, the empty result is returned
SearchFails ==
    /\ returned = <<>>
    /\ returned' = <<<<>>>>
    /\ SearchUnchanged

SearchNext == Search \/ SearchFails

SearchSpec == SearchInit /\ [][SearchNext]_vars

\* C17: no entry that search returns has a similarity below the threshold
\* asked for, the threshold 0 included.
C17_NothingBelowThreshold ==
    returned # <<>> =>
        \A e \in Range(returned[1]) : Similarity(e[2]) >= call.similarity_threshold

(***************************************************************************)
(* services/generation.py: the AnswerGenerator around the model API. A     *)
(* generated text is a sequence of tokens: words, blanks, newlines, the    *)
(* confidence marker in two letter cases, and numbers.                     *)
(***************************************************************************)

\* The largest number of tokens of a generated text.
MaxTokens == 4

\* The largest number of questions of one batch_generate_answers call.
MaxBatch == 2

Markers == {"CONFIDENCE:", "confidence:"}

Spaces == {" ", "\n"}

\* The numbers a text holds and their value, in hundredths.
NumberValue == ("0.85" :> 85) @@ ("1.5" :> 150)

Tokens == {"word"} \cup Spaces \cup Markers \cup DOMAIN NumberValue

\* The generated texts; numbers stand apart from each other.
ResponseTexts ==
    {t \in UNION {[1..n -> Tokens] : n \in 0..MaxTokens} :
        \A i \in 1..(Len(t) - 1) :
            ~(t[i] \in DOMAIN NumberValue /\ t[i + 1] \in DOMAIN NumberValue)}

RECURSIVE SkipSpaces(_, _)
\* \s*: the first position from i on that holds no whitespace
SkipSpaces(answer_text, i) ==
    IF i <= Len(answer_text) /\ answer_text[i] \in Spaces
    THEN SkipSpaces(answer_text, i + 1)
    ELSE i

\* The position of the number of 'CONFIDENCE:\s*([0-9]*\.?[0-9]+)' matched at
\* position i (re.IGNORECASE), 0 when the pattern does not match there
NumberOfMarkerAt(answer_text, i) ==
    LET j == SkipSpaces(answer_text, i + 1)
    IN  IF /\ answer_text[i] \in Markers
           /\ j <= Len(answer_text)
           /\ answer_text[j] \in DOMAIN NumberValue
        THEN j ELSE 0

\* The positions where re.search can match the marker pattern.
MarkerPositions(answer_text) ==
    {i \in 1..Len(answer_text) : NumberOfMarkerAt(answer_text, i) # 0}

\* A confidence value, as opposed to None (NoRow).
Some(value) == [value |-> value]

\* generation.py 138-150 returning float(match.group(1)) as it is
ParseConfidenceUnclamped(answer_text) ==
    LET found == MarkerPositions(answer_text)
    IN  IF found = {} THEN NoRow
        ELSE LET first == CHOOSE i \in found : \A o \in found : i <= o
             IN  Some(NumberValue[answer_text[NumberOfMarkerAt(answer_text, first)]])

\* generation.py 138-150: the number of the first match, clamped to [0, 1];
\* None when nothing matches
_parse_confidence(answer_text) ==
    LET found == MarkerPositions(answer_text)
    IN  IF found = {} THEN NoRow
        ELSE LET first == CHOOSE i \in found : \A o \in found : i <= o
                 score == NumberValue[answer_text[NumberOfMarkerAt(answer_text, first)]]
             IN  Some(IF score > 100 THEN 100 ELSE IF score < 0 THEN 0 ELSE score)

RECURSIVE NewlinesBefore(_, _)
\* \n*: the first position of the run of newlines that ends just before i
NewlinesBefore(answer_text, i) ==
    IF i > 1 /\ answer_text[i - 1] = "\n"
    THEN NewlinesBefore(answer_text, i - 1)
    ELSE i

\* generation.py 152-155: re.sub of '\n*CONFIDENCE:\s*[0-9]*\.?[0-9]+\s*$': a
\* marker whose number is followed by whitespace only up to the end of the
\* text is cut off with the newlines before it
_remove_confidence_marker(answer_text) ==
    LET last == {i \in MarkerPositions(answer_text) :
                    SkipSpaces(answer_text, NumberOfMarkerAt(answer_text, i) + 1)
                        = Len(answer_text) + 1}
    IN  IF last = {} THEN answer_text
        ELSE SubSeq(answer_text, 1,
                    NewlinesBefore(answer_text, CHOOSE i \in last : TRUE) - 1)

\* What the call of the model API does: it raises, or answers with a text.
ApiResponses ==
    {[raised |-> TRUE, text |-> <<>>]}
    \cup [raised : {FALSE}, text : ResponseTexts]

\* What an AnswerGenerator operation gives its caller: raised, or an answer
\* with its confidence; error is the metadata entry 'error'.
Generated(answer, confidence_score, error) ==
    [raised |-> FALSE, answer |-> answer, confidence_score |-> confidence_score,
     error |-> error]

GenerationRaised == [raised |-> TRUE, answer |-> <<>>, confidence_score |-> NoRow,
                     error |-> TRUE]

\* generation.py 23-90: AnswerGenerator.generate_answer, given what the API
\* call does; the exception is re-raised (88-90)
AnswerGenerator_generate_answer(response, include_confidence) ==
    IF response.raised THEN GenerationRaised
    ELSE Generated(
             LStrip(RStrip(IF include_confidence
                           THEN _remove_confidence_marker(response.text)
                           ELSE response.text, Spaces), Spaces),
             IF include_confidence THEN _parse_confidence(response.text) ELSE NoRow,
             FALSE)

RECURSIVE batch_generate_answers(_, _)
\* generation.py 157-200: one result for each question; a call that raises is
\* caught and gives an 'Error generating answer: ...' text with confidence 0.0
batch_generate_answers(responses, include_confidence) ==
    IF responses = <<>> THEN <<>>
    ELSE LET result == AnswerGenerator_generate_answer(Head(responses),
                                                       include_confidence)
         IN  <<IF result.raised
               THEN Generated(<<"Error generating answer:">>, Some(0), TRUE)
               ELSE result>>
             \o batch_generate_answers(Tail(responses), include_confidence)

\* What the API does for the questions of a batch: it raises, or answers
\* with a text that ends in a marker.
BatchResponses ==
    {[raised |-> TRUE, text |-> <<>>],
     [raised |-> FALSE, text |-> <<"word", "\n", "CONFIDENCE:", "0.85">>]}

\* A call of generate_answer for a question, or of batch_generate_answers for
\* a list of questions, with what the API does for each of them.
GeneratorCalls ==
    [operation : {"generate_answer"}, include_confidence : BOOLEAN,
     responses : {<<r>> : r \in ApiResponses}]
    \cup [operation : {"batch_generate_answers"}, include_confidence : BOOLEAN,
          responses : UNION {[1..n -> BatchResponses] : n \in 1..MaxBatch}]

GeneratorInit ==
    /\ text = <<>>
    /\ normalized = <<>>
    /\ documents = [d \in DocIds |-> NoRow]
    /\ docChunks = [d \in Docs |-> 0]
    /\ chunkRows = {}
    /\ collection = {}
    /\ taskStatus = [t \in Tasks |-> NoRow]
    /\ task = [t \in Tasks |-> NoRow]
    /\ rfps = <<>>
    /\ questions = <<>>
    /\ answers = <<>>
    /\ now = 0
    /\ call \in GeneratorCalls
    /\ returned = <<>>

\* AnswerGenerator.generate_answer is called and returns or raises
GenerateAnswer ==
    /\ call.operation = "generate_answer"
    /\ returned = <<>>
    /\ returned' = <<AnswerGenerator_generate_answer(call.responses[1],
                                                     call.include_confidence)>>
    /\ SearchUnchanged

\* AnswerGenerator.batch_generate_answers is called and returns its list
BatchGenerateAnswers ==
    /\ call.operation = "batch_generate_answers"
    /\ returned = <<>>
    /\ returned' = <<[raised |-> FALSE,
                      answers |-> batch_generate_answers(call.responses,
                                                         call.include_confidence)]>>
    /\ SearchUnchanged

GeneratorNext == GenerateAnswer \/ BatchGenerateAnswers

GeneratorSpec == GeneratorInit /\ [][GeneratorNext]_vars

\* C18: when the API call for a question raises, the operation that made it
\* raises to its caller instead of returning.
C18_GenerationFailurePropagates ==
    returned # <<>> =>
        ((\E k \in DOMAIN call.responses : call.responses[k].raised)
            => returned[1].raised)

\* C19: with confidence requested, when the parser finds a marker in the
\* generated text, the confidence returned is the marker's number clamped to
\* [0, 1] and the marker pattern is no longer found in the answer returned.
C19_MarkerParsedAndRemoved ==
    (/\ returned # <<>>
     /\ call.operation = "generate_answer"
     /\ call.include_confidence
     /\ ~call.responses[1].raised
     /\ MarkerPositions(call.responses[1].text) # {})
    => /\ returned[1].confidence_score # NoRow
       /\ returned[1].confidence_score.value >= 0
       /\ returned[1].confidence_score.value <= 100
       /\ MarkerPositions(returned[1].answer) = {}

\* C20: the processing_status of a document that is completed or failed never
\* goes back to processing or pending, and a completed document never becomes
\* failed, whatever tasks run on it.
C20_StatusOneDirectional ==
    [][\A d \in Docs :
          /\ documents[d].processing_status \in {"completed", "failed"} =>
                 documents'[d].processing_status \notin {"processing", "pending"}
          /\ documents[d].processing_status = "completed" =>
                 documents'[d].processing_status # "failed"]_vars

(***************************************************************************)
(* services/chunking.py: the TextChunker around the text splitter. A       *)
(* Python dict is a function from its keys; a chunk's 'metadata' is a       *)
(* reference to a dict, so that two chunks may hold the same dict.         *)
(***************************************************************************)

\* The longest text chunked.
MaxText == 4

\* The most pieces the splitter cuts a text into.
MaxPieces == 2

\* The most page breaks handed to chunk_with_page_tracking.
MaxBreaks == 2

ChunkChars == {"a", "b", " "}

ChunkTexts == UNION {[1..n -> ChunkChars] : n \in 0..MaxText}

\* The stretches of text a piece of the splitter may be, as offsets
\* <<start, end>> counted from 0, end excluded: the splitter strips its pieces
\* and drops the empty ones.
Stretches(s) ==
    {p \in (0..Len(s)) \X (0..Len(s)) :
        /\ p[1] < p[2]
        /\ s[p[1] + 1] \notin Whitespace
        /\ s[p[2]] \notin Whitespace}

\* splitter.split_text(text), for any chunk_size and chunk_overlap: pieces of
\* the text in source order, a piece starting inside the one before it when
\* they overlap, and no character but whitespace left out.
Splits(s) ==
    {sp \in UNION {[1..n -> Stretches(s)] : n \in 0..MaxPieces} :
        /\ \A i \in 1..(Len(sp) - 1) :
               sp[i][1] < sp[i + 1][1] /\ sp[i][2] < sp[i + 1][2]
        /\ \A k \in 1..Len(s) :
               s[k] \notin Whitespace =>
                   \E i \in DOMAIN sp : sp[i][1] < k /\ k <= sp[i][2]}

\* The strings split_text returns for the pieces sp.
Pieces(s, sp) == [i \in DOMAIN sp |-> SubSeq(s, sp[i][1] + 1, sp[i][2])]

\* _token_length: the tokens of the encoding, counted here in characters
_token_length(s) == Len(s)

\* The dict the caller handed in is object 0; the dict built for the chunk at
\* position i is object i.
CallerDict == 0

\* The result of one call: raised or returned, the chunk dicts, and the dict
\* objects their 'metadata' entries refer to.
Chunked(chunks, dicts) == [raised |-> FALSE, chunks |-> chunks, dicts |-> dicts]

\* chunk_text that raises on blank text, as process_document does
ChunkTextRejectingBlank(s, metadata, pieces) ==
    IF s = <<>> \/ Strip(s) = <<>>
    THEN [raised |-> TRUE, chunks |-> <<>>, dicts |-> <<>>]
    ELSE Chunked([i \in DOMAIN pieces |->
                     [content |-> pieces[i], chunk_index |-> i - 1,
                      token_count |-> _token_length(pieces[i]), metadata |-> i]],
                 [i \in DOMAIN pieces |-> <<>>])

\* chunk_text(text, metadata), with pieces what splitter.split_text returned;
\* 'metadata or {}' is the caller's dict itself when it has entries, and a new
\* empty dict for each chunk when it is None or empty
chunk_text(s, metadata, pieces) ==
    IF s = <<>> \/ Strip(s) = <<>>
    THEN Chunked(<<>>, <<>>)
    ELSE LET given == metadata # NoRow /\ DOMAIN metadata.value # {}
         IN  Chunked([i \in DOMAIN pieces |->
                         [content |-> pieces[i], chunk_index |-> i - 1,
                          token_count |-> _token_length(pieces[i]),
                          metadata |-> IF given THEN CallerDict ELSE i]],
                     IF given THEN (CallerDict :> metadata.value)
                     ELSE [i \in DOMAIN pieces |-> <<>>])

\* str.find(sub, start): the lowest offset from start on where sub occurs, -1
\* when there is none
Find(s, sub, start) ==
    LET hits == {i \in start..(Len(s) - Len(sub)) :
                    SubSeq(s, i + 1, i + Len(sub)) = sub}
    IN  IF hits = {} THEN -1 ELSE CHOOSE i \in hits : \A j \in hits : i <= j

RECURSIVE PageNumber(_, _, _)
\* chunking.py 102-107: one more page for each break at or before chunk_start,
\* until the first break after it
PageNumber(page_breaks, chunk_start, page_num) ==
    IF page_breaks # <<>> /\ chunk_start >= Head(page_breaks)
    THEN PageNumber(Tail(page_breaks), chunk_start, page_num + 1)
    ELSE page_num

RECURSIVE TrackPages(_, _, _, _, _, _)
\* chunking.py 97-110: the loop over the chunks from the one at position i on
TrackPages(s, page_breaks, chunks, i, current_pos, dicts) ==
    IF i > Len(chunks) THEN dicts
    ELSE LET chunk_start == Find(s, chunks[i].content, current_pos)
             page_num == PageNumber(page_breaks, chunk_start, 1)
         IN  TrackPages(s, page_breaks, chunks, i + 1,
                        chunk_start + Len(chunks[i].content),
                        [dicts EXCEPT ![chunks[i].metadata] =
                             ("page_number" :> page_num) @@ @])

\* chunk_with_page_tracking(text, page_breaks, metadata); page_breaks is <<>>
\* for None as for the empty list
chunk_with_page_tracking(s, page_breaks, metadata, pieces) ==
    LET chunks == chunk_text(s, metadata, pieces)
    IN  IF page_breaks # <<>>
        THEN [chunks EXCEPT !.dicts =
                 TrackPages(s, page_breaks, chunks.chunks, 1, 0, chunks.dicts)]
        ELSE chunks

\* The metadata a caller hands in: None, the empty dict, a dict with entries.
Metadatas == {NoRow, Some(<<>>), Some("document_id" :> "d1")}

\* The page-break lists for a text: offsets into it, ascending.
PageBreaks(s) ==
    {b \in UNION {[1..n -> 1..Len(s)] : n \in 0..MaxBreaks} :
        \A i \in 1..(Len(b) - 1) : b[i] < b[i + 1]}

ChunkCalls ==
    UNION {[operation : {"chunk_text"}, text : {s}, page_breaks : {<<>>},
            metadata : Metadatas]
           \cup [operation : {"chunk_with_page_tracking"}, text : {s},
                 page_breaks : PageBreaks(s), metadata : Metadatas]
           : s \in ChunkTexts}

ChunkInit ==
    /\ text = <<>>
    /\ normalized = <<>>
    /\ documents = [d \in DocIds |-> NoRow]
    /\ docChunks = [d \in Docs |-> 0]
    /\ chunkRows = {}
    /\ collection = {}
    /\ taskStatus = [t \in Tasks |-> NoRow]
    /\ task = [t \in Tasks |-> NoRow]
    /\ rfps = <<>>
    /\ questions = <<>>
    /\ answers = <<>>
    /\ now = 0
    /\ call \in ChunkCalls
    /\ returned = <<>>

\* TextChunker.chunk_text is called; splits are the offsets of the pieces the
\* splitter cut, which the chunker does not see
ChunkText ==
    /\ call.operation = "chunk_text"
    /\ returned = <<>>
    /\ \E sp \in Splits(call.text) :
           returned' = <<[splits |-> sp,
                          result |-> chunk_text(call.text, call.metadata,
                                                Pieces(call.text, sp))]>>
    /\ SearchUnchanged

\* TextChunker.chunk_with_page_tracking is called
ChunkWithPageTracking ==
    /\ call.operation = "chunk_with_page_tracking"
    /\ returned = <<>>
    /\ \E sp \in Splits(call.text) :
           returned' = <<[splits |-> sp,
                          result |-> chunk_with_page_tracking(
                                         call.text, call.page_breaks,
                                         call.metadata, Pieces(call.text, sp))]>>
    /\ SearchUnchanged

ChunkNext == ChunkText \/ ChunkWithPageTracking

ChunkSpec == ChunkInit /\ [][ChunkNext]_vars

\* The page that holds the character at offset: one more than the number of
\* page breaks at or before it.
PageOf(page_breaks, offset) ==
    1 + Cardinality({i \in DOMAIN page_breaks : page_breaks[i] <= offset})

\* C21: with page breaks given, every chunk chunk_with_page_tracking returns
\* carries the number of the page that holds the chunk's first character,
\* with or without metadata of the caller and with overlapping chunks.
C21_ChunkPageIsPageOfStart ==
    (/\ returned # <<>>
     /\ call.operation = "chunk_with_page_tracking"
     /\ call.page_breaks # <<>>)
    => \A i \in DOMAIN returned[1].result.chunks :
           LET dict == returned[1].result.dicts[returned[1].result.chunks[i].metadata]
           IN  /\ "page_number" \in DOMAIN dict
               /\ dict["page_number"] =
                      PageOf(call.page_breaks, returned[1].splits[i][1])

\* C30: chunk_text on empty or whitespace-only text returns the empty list
\* and does not raise, whatever the splitter's configuration.
C30_BlankTextGivesNoChunks ==
    (/\ returned # <<>>
     /\ call.operation = "chunk_text"
     /\ Strip(call.text) = <<>>)
    => /\ ~returned[1].result.raised
       /\ returned[1].result.chunks = <<>>

\* chunk_text was called on a text of whitespace only and has returned.
C30_Witness ==
    /\ returned # <<>>
    /\ call.operation = "chunk_text"
    /\ call.text # <<>>
    /\ Strip(call.text) = <<>>
    /\ ~returned[1].result.raised

(***************************************************************************)
(* Chunk numbering, from the chunker to the rows and the index: a call of  *)
(* the chunker, or the ingestion tasks on their document.                  *)
(***************************************************************************)

IndexingInit == IngestInit \/ ChunkInit

\* A chunker call is in call; the ingestion tasks make none.
IndexingNext == (call = NoRow /\ IngestNext) \/ (call # NoRow /\ ChunkNext)

IndexingSpec == IndexingInit /\ [][IndexingNext]_vars

\* The DocumentChunk rows of document d.
RowsOf(d) == {k \in chunkRows : k[1] = d}

\* C22: the chunks the chunker returns are numbered 0..N-1 in the order of
\* their pieces; the DocumentChunk rows of a document carry exactly the
\* indices 0..N-1, N the number of chunks of its file; and the ids in the
\* index are ChunkId(document, i) for i in 0..N-1.
C22_ChunkIndicesGapless ==
    /\ (call # NoRow /\ returned # <<>>) =>
           LET chunks == returned[1].result.chunks
           IN  /\ Len(chunks) = Len(returned[1].splits)
               /\ \A i \in DOMAIN chunks :
                      /\ chunks[i].chunk_index = i - 1
                      /\ chunks[i].content =
                             Pieces(call.text, returned[1].splits)[i]
    /\ \A d \in DOMAIN docChunks :
           /\ {k[2] : k \in RowsOf(d)} = 0..(Cardinality(RowsOf(d)) - 1)
           /\ RowsOf(d) # {} => Cardinality(RowsOf(d)) = docChunks[d]
           /\ {id \in collection : id[1] = d}
                  \subseteq {ChunkId(d, i) : i \in 0..(docChunks[d] - 1)}
           /\ (documents[d] # NoRow /\ documents[d].processing_status = "completed") =>
                  /\ documents[d].chunk_count = docChunks[d]
                  /\ Cardinality(RowsOf(d)) = docChunks[d]

\* A document of more than one chunk is completed, with its rows written and
\* its chunks in the index.
C22_Witness ==
    \E d \in DOMAIN docChunks :
        /\ documents[d] # NoRow
        /\ documents[d].processing_status = "completed"
        /\ Cardinality(RowsOf(d)) > 1
        /\ {id \in collection : id[1] = d} # {}

(***************************************************************************)
(* Deleting: VectorStore.delete_by_document, which                         *)
(* RAGPipeline.delete_document_data calls, and                             *)
(* DocumentViewSet.perform_destroy, on two ingested documents.             *)
(***************************************************************************)

IngestedDocs == {"d1", "d2"}

\* The Document row process_document leaves behind for a file of n chunks.
IngestedDocument(n) ==
    [NewDocument EXCEPT
        !.processing_status = IF n > 0 THEN "completed" ELSE "failed",
        !.processed = n > 0,
        !.chunk_count = n,
        !.error = IF n > 0 THEN "" ELSE "No chunks generated from document"]

\* A deletion request before it runs: result is what delete_by_document
\* returned, raised tells that the index raised inside it.
QueuedDeletion(operation, d) ==
    [operation |-> operation, arg |-> d, pc |-> "queued", result |-> NoRow,
     raised |-> FALSE]

\* collection.delete() that names no document
DeleteEverything(coll, document_id, raises) ==
    [ok |-> ~raises, collection |-> IF raises THEN coll ELSE {}]

\* vector_store.py 133-151: collection.delete(where={"document_id": ...}) and
\* True; an exception of the index is printed and answered with False. The
\* metadata of an entry names the document its id starts with
\* (rag_pipeline.py 70-71, 91).
delete_by_document(coll, document_id, raises) ==
    IF raises
    THEN [ok |-> FALSE, collection |-> coll]
    ELSE [ok |-> TRUE, collection |-> {id \in coll : id[1] # document_id}]

\* rag_pipeline.py 264-274
delete_document_data(coll, document_id, raises) ==
    delete_by_document(coll, document_id, raises)

DestroyInit ==
    /\ text = <<>>
    /\ normalized = <<>>
    /\ NoAnswering
    /\ docChunks \in [IngestedDocs -> 0..MaxChunks]
    /\ documents = [d \in IngestedDocs |-> IngestedDocument(docChunks[d])]
    /\ chunkRows = UNION {ChunkKeys(d) : d \in IngestedDocs}
    /\ collection = {ChunkId(k[1], k[2]) : k \in chunkRows}
    /\ taskStatus = [t \in Tasks |-> NoRow]
    /\ task \in [Tasks -> {QueuedDeletion(o, d) :
                              o \in {"delete_document_data", "perform_destroy"},
                              d \in IngestedDocs}]

DestroyUnchanged ==
    UNCHANGED <<text, normalized, docChunks, taskStatus, rfps, questions,
                answers, now, call, returned>>

\* A call of RAGPipeline.delete_document_data
DeleteDocumentData(t) ==
    /\ task[t].operation = "delete_document_data"
    /\ task[t].pc = "queued"
    /\ \E raises \in BOOLEAN :
           LET r == delete_document_data(collection, task[t].arg, raises)
           IN  /\ collection' = r.collection
               /\ task' = [task EXCEPT ![t].pc = "returned",
                                       ![t].result = Some(r.ok),
                                       ![t].raised = raises]
    /\ UNCHANGED <<documents, chunkRows>>
    /\ DestroyUnchanged

\* DELETE /documents/{id}/: get_object() finds the row, or answers 404
DestroyGetObject(t) ==
    /\ task[t].operation = "perform_destroy"
    /\ task[t].pc = "queued"
    /\ task' = [task EXCEPT ![t].pc = IF documents[task[t].arg] = NoRow
                                      THEN "not_found" ELSE "index"]
    /\ UNCHANGED <<documents, chunkRows, collection>>
    /\ DestroyUnchanged

\* views.py 75-76: delete_document_data(str(instance.id)), its answer dropped
DestroyIndex(t) ==
    /\ task[t].pc = "index"
    /\ \E raises \in BOOLEAN :
           LET r == delete_document_data(collection, task[t].arg, raises)
           IN  /\ collection' = r.collection
               /\ task' = [task EXCEPT ![t].pc = "delete",
                                       ![t].result = Some(r.ok),
                                       ![t].raised = raises]
    /\ UNCHANGED <<documents, chunkRows>>
    /\ DestroyUnchanged

\* views.py 77: instance.delete(); models.py 42: the chunks go with it
DestroyInstance(t) ==
    /\ task[t].pc = "delete"
    /\ documents' = [documents EXCEPT ![task[t].arg] = NoRow]
    /\ chunkRows' = chunkRows \ RowsOf(task[t].arg)
    /\ task' = [task EXCEPT ![t].pc = "returned"]
    /\ UNCHANGED collection
    /\ DestroyUnchanged

\* DocumentViewSet.perform_destroy, step by step
perform_destroy(t) == DestroyGetObject(t) \/ DestroyIndex(t) \/ DestroyInstance(t)

DestroyNext == \E t \in Tasks : DeleteDocumentData(t) \/ perform_destroy(t)

DestroySpec == DestroyInit /\ [][DestroyNext]_vars

\* The entries of the index whose metadata names document d.
VectorsOf(coll, d) == {id \in coll : id[1] = d}

\* C23: a call of delete_by_document the index does not fail leaves no entry
\* of the document in the index, leaves every entry of another document in
\* it, adds none, and returns True; with no entry of the document in the
\* index (a second call, a document without chunks) it changes nothing and
\* still returns True.
C23_DeleteByDocumentIdempotent ==
    [][\A t \in Tasks :
          (task[t].result = NoRow /\ task'[t].result # NoRow /\ ~task'[t].raised) =>
              /\ task'[t].result = Some(TRUE)
              /\ VectorsOf(collection', task[t].arg) = {}
              /\ collection' \subseteq collection
              /\ \A d \in IngestedDocs \ {task[t].arg} :
                     VectorsOf(collection', d) = VectorsOf(collection, d)
              /\ VectorsOf(collection, task[t].arg) = {} =>
                     collection' = collection]_vars

\* Two calls for the same document, which had chunks, have returned True, and
\* the entries of the other document are still in the index.
C23_Witness ==
    \E t1, t2 \in Tasks :
        /\ t1 # t2
        /\ task[t1].arg = task[t2].arg
        /\ task[t1].result = Some(TRUE)
        /\ task[t2].result = Some(TRUE)
        /\ docChunks[task[t1].arg] > 0
        /\ VectorsOf(collection, task[t1].arg) = {}
        /\ \E d \in IngestedDocs \ {task[t1].arg} :
               /\ VectorsOf(collection, d) # {}
               /\ Cardinality(VectorsOf(collection, d)) = docChunks[d]

\* C24: once a document is deleted through the API, no entry of the index
\* names it and none of its DocumentChunk rows remains, whatever the index
\* answered to the delete call.
C24_DeletedDocumentLeavesNothing ==
    \A d \in IngestedDocs :
        (d \in DOMAIN documents /\ documents[d] = NoRow) =>
            /\ RowsOf(d) = {}
            /\ VectorsOf(collection, d) = {}

(***************************************************************************)
(* Retrieval: VectorStore.search on an index as before, and                *)
(* RAGPipeline.retrieve_context on the collection.                         *)
(***************************************************************************)

RetrievalInit ==
    /\ text = <<>>
    /\ normalized = <<>>
    /\ documents = [d \in DocIds |-> NoRow]
    /\ docChunks = [d \in Docs |-> 0]
    /\ chunkRows = {}
    /\ collection = SearchIds
    /\ taskStatus = [t \in Tasks |-> NoRow]
    /\ task = [t \in Tasks |-> NoRow]
    /\ rfps = <<>>
    /\ questions = <<>>
    /\ answers = <<>>
    /\ now = 0
    /\ call \in [top_k : 1..MaxTopK, similarity_threshold : Thresholds,
                 index : [SearchIds -> SearchDistances]]
    /\ returned = <<>>

\* rag_pipeline.py 161-182: retrieve_context returns the chunks it formats
\* from the entries of search, one by one; kept with them is what the index
\* had answered
RetrieveContext ==
    /\ returned = <<>>
    /\ \E c \in retrieve_context(call.top_k, call.similarity_threshold) :
           returned' = <<c.chunks, c.nearest>>
    /\ SearchUnchanged

RetrievalNext == Search \/ SearchFails \/ RetrieveContext

RetrievalSpec == RetrievalInit /\ [][RetrievalNext]_vars

\* s holds entries of t, in the order they have in t.
IsSubsequence(s, t) ==
    \E f \in [DOMAIN s -> DOMAIN t] :
        /\ \A i, j \in DOMAIN s : i < j => f[i] < f[j]
        /\ \A i \in DOMAIN s : t[f[i]] = s[i]

\* C28: what search and retrieve_context return is a part of the list the
\* index answered with, in the order of that list, so it is in descending
\* order of similarity and has at most top_k entries.
C28_MatchesAreOrderedPartOfNearest ==
    returned # <<>> =>
        /\ Len(returned[1]) <= call.top_k
        /\ \A i, j \in DOMAIN returned[1] :
               i < j => Similarity(returned[1][i][2]) >= Similarity(returned[1][j][2])
        /\ \E nearest \in (IF Len(returned) = 2 THEN {returned[2]}
                            ELSE Nearest(call.index, call.top_k) \cup {<<>>}) :
               IsSubsequence(returned[1], nearest)

\* A search with a threshold has returned two entries at different distances.
C28_Witness ==
    /\ returned # <<>>
    /\ call.similarity_threshold > 0
    /\ Len(returned[1]) = 2
    /\ returned[1][1][2] < returned[1][2][2]

(***************************************************************************)
(* Confidence values, from the generator to the answers: a call of the     *)
(* AnswerGenerator, or the answering requests on their questions.          *)
(***************************************************************************)

ConfidenceInit == GeneratorInit \/ AnswerInit

\* A generator call is in call; the answering requests make none.
ConfidenceNext == (call # NoRow /\ GeneratorNext) \/ (call = NoRow /\ AnswerNext)

ConfidenceSpec == ConfidenceInit /\ [][ConfidenceNext]_vars

\* The confidence_score of a pipeline result or of an Answer row, in
\* hundredths: None, 0.0 of the placeholder, 0.9 of a generated answer.
ConfidenceOf(confidence_score) ==
    CASE confidence_score = "None" -> NoRow
      [] confidence_score = "0.0" -> Some(0)
      [] confidence_score = "0.9" -> Some(90)

\* None, or a number of hundredths from 0 to 1.
InUnit(confidence) ==
    confidence = NoRow \/ (confidence.value >= 0 /\ confidence.value <= 100)

\* C29: the confidence the generator returns, the confidence of a result of
\* the pipeline and the confidence_score of an Answer row are None or in
\* [0, 1]; a text without a well-formed marker gives None and no error.
C29_ConfidenceAbsentOrInUnit ==
    /\ (call # NoRow /\ returned # <<>>) =>
           /\ (call.operation = "generate_answer" /\ ~returned[1].raised) =>
                  InUnit(returned[1].confidence_score)
           /\ call.operation = "batch_generate_answers" =>
                  \A k \in DOMAIN returned[1].answers :
                      InUnit(returned[1].answers[k].confidence_score)
           /\ (/\ call.operation = "generate_answer"
               /\ ~call.responses[1].raised
               /\ MarkerPositions(call.responses[1].text) = {}) =>
                  /\ ~returned[1].raised
                  /\ returned[1].confidence_score = NoRow
    /\ call = NoRow =>
           /\ \A q \in DOMAIN answers :
                  answers[q] # NoRow =>
                      InUnit(ConfidenceOf(answers[q].confidence_score))
           /\ \A t \in DOMAIN task :
                  task[t].result # NoRow =>
                      InUnit(ConfidenceOf(task[t].result.confidence_score))

\* The generator has returned the confidence 1 for a marker with a number
\* above 1.
C29_Witness ==
    /\ call # NoRow
    /\ returned # <<>>
    /\ call.operation = "generate_answer"
    /\ ~returned[1].raised
    /\ returned[1].confidence_score = Some(100)
    /\ \E i \in DOMAIN call.responses[1].text : call.responses[1].text[i] = "1.5"

(***************************************************************************)
(* The endpoints that start the work: DocumentViewSet.create, which        *)
(* uploads a document, and RFPViewSet.generate_answers. Either the upload  *)
(* requests run, each on the document it creates, or the generate_answers  *)
(* requests on the RFPs.                                                   *)
(***************************************************************************)

\* A request and the locals of its view: the locals of process_document for
\* an upload; idx, total, result, errors and generated_count for the loop of
\* generate_answers; enqueued lists the jobs the view handed to the task
\* queue, response is what it answered.
ApiRequest(kind, arg) ==
    [kind |-> kind, arg |-> arg, pc |-> "queued", inst |-> NoRow, ran |-> <<>>,
     failed |-> "", error |-> "", success |-> FALSE, idx |-> 0, total |-> 0,
     result |-> NoRow, errors |-> <<>>, generated_count |-> 0, asked |-> <<>>,
     enqueued |-> <<>>, response |-> NoRow]

\* The uploads: request t creates the Document with id t.
UploadInit ==
    /\ text = <<>>
    /\ normalized = <<>>
    /\ NoAnswering
    /\ documents = [d \in Tasks |-> NoRow]
    /\ docChunks \in [Tasks -> 0..MaxChunks]
    /\ chunkRows = {}
    /\ collection = {}
    /\ taskStatus = [t \in Tasks |-> NoRow]
    /\ task = [t \in Tasks |-> ApiRequest("create", t)]

\* views.py 58-60 and 41: the request is refused (400), or serializer.save()
\* inserts the Document row
CreateSave(t) ==
    /\ task[t].kind = "create"
    /\ task[t].pc = "queued"
    /\ \/ /\ task' = [task EXCEPT ![t].pc = "returned",
                                  ![t].response = [status_code |-> 400,
                                                   task_id |-> NoRow]]
          /\ UNCHANGED documents
       \/ /\ documents' = [documents EXCEPT ![task[t].arg] = NewDocument]
          /\ task' = [task EXCEPT ![t].pc = "pl_start", ![t].inst = NewDocument]
    /\ UNCHANGED <<taskStatus, chunkRows, collection>>
    /\ IngestUnchanged

\* views.py 61-71: process_document has returned its result; 201 with the
\* document and processing_result
CreateRespond(t) ==
    /\ task[t].kind = "create"
    /\ task[t].pc = "p90"
    /\ task' = [task EXCEPT ![t].pc = "returned",
                            ![t].response = [status_code |-> 201,
                                             task_id |-> NoRow]]
    /\ UNCHANGED <<documents, taskStatus, chunkRows, collection>>
    /\ IngestUnchanged

\* DocumentViewSet.create with perform_create, step by step
create(t) == CreateSave(t) \/ process_document(t) \/ CreateRespond(t)

\* The generate_answers requests, on the RFPs of AnswerInit or on an id no RFP
\* has.
ViewInit ==
    /\ text = <<>>
    /\ normalized = <<>>
    /\ documents = [d \in DocIds |->
           IF d \in Docs
           THEN [NewDocument EXCEPT !.processing_status = "completed",
                                    !.processed = TRUE, !.chunk_count = 1]
           ELSE NoRow]
    /\ docChunks = [d \in Docs |-> 1]
    /\ chunkRows = {<<d, 0>> : d \in Docs}
    /\ collection = {ChunkId(d, 0) : d \in Docs}
    /\ rfps = [r \in RfpIds \cup {"missing"} |->
           IF r \in RfpIds THEN [status |-> "pending"] ELSE NoRow]
    /\ questions = [q \in QIds \cup {"missing"} |->
           CASE q = "q1" -> NewQuestion("r1", 1, <<"A", "?">>)
             [] q = "q2" -> NewQuestion("r1", 2, <<"b">>)
             [] q = "q3" -> NewQuestion("r2", 1, <<"a">>)
             [] OTHER -> NoRow]
    /\ answers = [q \in QIds |-> NoRow]
    /\ now = 0
    /\ call = NoRow
    /\ returned = <<>>
    /\ taskStatus = [t \in Requests |-> NoRow]
    /\ task \in [Requests -> {ApiRequest("generate_answers", r) :
                                 r \in RfpIds \cup {"missing"}}]

\* views.py 110-119: get_object() (404 when there is no such RFP);
\* rfp.status = 'processing'; rfp.save()
ViewStart(t) ==
    /\ task[t].kind = "generate_answers"
    /\ task[t].pc = "queued"
    /\ IF rfps[task[t].arg] = NoRow
       THEN /\ task' = [task EXCEPT ![t].pc = "returned",
                                    ![t].response = [status_code |-> 404,
                                                     task_id |-> NoRow]]
            /\ UNCHANGED rfps
       ELSE /\ rfps' = [rfps EXCEPT ![task[t].arg].status = "processing"]
            /\ task' = [task EXCEPT ![t].pc = "v_loop", ![t].idx = 1,
                                    ![t].total = Len(RfpQuestions(task[t].arg))]
    /\ UNCHANGED <<taskStatus, answers, now>>
    /\ AnswerUnchanged

\* views.py 127-135 and 168-172: generate_answer for the next question; what
\* it raises is caught and listed in errors
ViewGenerate(t) ==
    /\ task[t].kind = "generate_answers"
    /\ task[t].pc = "v_loop"
    /\ task[t].idx <= task[t].total
    /\ LET question == RfpQuestions(task[t].arg)[task[t].idx]
       IN  \E result \in generate_answer(questions[question].question_text,
                                         DefaultTopK, TRUE) :
               IF result.raised
               THEN task' = [task EXCEPT ![t].idx = @ + 1,
                                         ![t].errors = Append(@, question),
                                         ![t].asked = Append(@, question)]
               ELSE task' = [task EXCEPT ![t].pc = "v_get",
                                         ![t].result = result,
                                         ![t].asked = Append(@, question)]
    /\ UNCHANGED <<taskStatus, rfps, answers, now>>
    /\ AnswerUnchanged

\* views.py 141-149 and 160-166: Answer.objects.get_or_create; a created
\* answer gets its source chunks
ViewGetOrCreate(t) ==
    /\ task[t].kind = "generate_answers"
    /\ task[t].pc = "v_get"
    /\ LET question == RfpQuestions(task[t].arg)[task[t].idx]
       IN  IF answers[question] = NoRow
           THEN /\ answers' = [answers EXCEPT ![question] =
                       LinkChunks(NewAnswer(task[t].result), task[t].result)]
                /\ now' = now + 1
                /\ task' = [task EXCEPT ![t].pc = "v_loop", ![t].idx = @ + 1,
                                        ![t].result = NoRow,
                                        ![t].generated_count = @ + 1]
           ELSE /\ task' = [task EXCEPT ![t].pc = "v_save",
                                        ![t].inst = answers[question]]
                /\ UNCHANGED <<answers, now>>
    /\ UNCHANGED <<taskStatus, rfps>>
    /\ AnswerUnchanged

\* views.py 151-166: the existing answer is updated and saved
ViewSave(t) ==
    /\ task[t].kind = "generate_answers"
    /\ task[t].pc = "v_save"
    /\ LET question == RfpQuestions(task[t].arg)[task[t].idx]
       IN  answers' = [answers EXCEPT ![question] =
               LinkChunks(SavedAnswer(task[t].inst, task[t].result,
                                      task[t].result.metadata.cached, @),
                          task[t].result)]
    /\ task' = [task EXCEPT ![t].pc = "v_loop", ![t].idx = @ + 1,
                            ![t].result = NoRow, ![t].inst = NoRow,
                            ![t].generated_count = @ + 1]
    /\ UNCHANGED <<taskStatus, rfps, now>>
    /\ AnswerUnchanged

\* views.py 174-185: 'completed' when no question failed, 'failed' otherwise;
\* 200 with the counts and the errors
ViewRespond(t) ==
    /\ task[t].kind = "generate_answers"
    /\ task[t].pc = "v_loop"
    /\ task[t].idx > task[t].total
    /\ rfps' = [rfps EXCEPT ![task[t].arg].status =
                   IF task[t].errors = <<>> THEN "completed" ELSE "failed"]
    /\ task' = [task EXCEPT ![t].pc = "returned",
                            ![t].response = [status_code |-> 200,
                                             task_id |-> NoRow]]
    /\ UNCHANGED <<taskStatus, answers, now>>
    /\ AnswerUnchanged

\* RFPViewSet.generate_answers, step by step
generate_answers(t) ==
    \/ ViewStart(t)
    \/ ViewGenerate(t)
    \/ ViewGetOrCreate(t)
    \/ ViewSave(t)
    \/ ViewRespond(t)

ApiInit == UploadInit \/ ViewInit

ApiNext ==
    \/ Ingesting /\ \E t \in Tasks : create(t)
    \/ ~Ingesting /\ \E t \in Requests : generate_answers(t)

ApiSpec == ApiInit /\ [][ApiNext]_vars

\* C25: a request that uploads a document or asks for the answers of an RFP,
\* and is not refused, is answered 202 with the id of the one job it has put
\* in the queue, and has run no step of the ingestion and asked for no answer
\* itself.
C25_RequestsEnqueueOneJob ==
    \A t \in DOMAIN task :
        (task[t].response # NoRow /\ task[t].response.status_code \notin {400, 404}) =>
            /\ task[t].response.status_code = 202
            /\ Len(task[t].enqueued) = 1
            /\ task[t].response.task_id = Some(task[t].enqueued[1])
            /\ task[t].ran = <<>>
            /\ task[t].asked = <<>>

(***************************************************************************)
(* Who owns an answer: the Answer rows under the requests that write them  *)
(* (the batch task and view, the regeneration task and endpoint) and the   *)
(* requests that delete a question or an RFP. In this specification        *)
(* answers is the set of the Answer rows, each with its id and its         *)
(* question, so that the rows of a question can be counted; what an answer *)
(* says and the task-status rows are left out.                             *)
(***************************************************************************)

\* The requests that can be submitted, on the RFP r1 with the questions q1 and
\* q2.
OwnershipKinds ==
    <<<<"generate_answers_async", "r1">>, <<"generate_answers", "r1">>,
      <<"regenerate_answer_async", "q1">>, <<"regenerate_answer", "q1">>,
      <<"destroy_question", "q1">>, <<"destroy_rfp", "r1">>>>

\* A request and its locals: qs the questions it loaded, idx the one it is
\* at, inst the Answer instance it holds, collected the rows the deletion has
\* collected.
OwnershipRequest(kind, arg) ==
    [kind |-> kind, arg |-> arg, pc |-> "queued", qs |-> <<>>, idx |-> 0,
     inst |-> NoRow, collected |-> [questions |-> {}, answers |-> {}],
     error |-> ""]

\* The Answer rows of question q.
AnswersOf(rows, q) == {a \in rows : a.question = q}

\* An insert that a ForeignKey in place of the OneToOneField would accept
CanInsertAnotherAnswer(rows, a) == questions[a.question] # NoRow

\* models.py 112: question is a OneToOneField, so the database refuses an
\* Answer whose question has a row already (unique) or has no Question row
\* (foreign key)
CanInsertAnswer(rows, a) ==
    /\ questions[a.question] # NoRow
    /\ AnswersOf(rows, a.question) = {}

OwnershipInit ==
    /\ text = <<>>
    /\ normalized = <<>>
    /\ documents = [d \in DocIds |-> NoRow]
    /\ docChunks = [d \in Docs |-> 0]
    /\ chunkRows = {}
    /\ collection = {}
    /\ rfps = [r \in {"r1"} |-> [status |-> "pending"]]
    /\ questions = [q \in {"q1", "q2"} |->
           IF q = "q1" THEN NewQuestion("r1", 1, <<"a">>)
           ELSE NewQuestion("r1", 2, <<"b">>)]
    /\ answers \in {{}, {[id |-> <<0, "q1">>, question |-> "q1"]}}
    /\ now = 0
    /\ call = NoRow
    /\ returned = <<>>
    /\ taskStatus = [t \in Requests |-> NoRow]
    /\ task \in {[t \in Requests |->
                     OwnershipRequest(OwnershipKinds[f[t]][1], OwnershipKinds[f[t]][2])] :
                    f \in {g \in [Requests -> DOMAIN OwnershipKinds] :
                              \A i, j \in Requests : i < j => g[i] <= g[j]}}

OwnershipUnchanged ==
    UNCHANGED <<text, normalized, documents, docChunks, chunkRows, collection,
                taskStatus, now, call, returned>>

\* rfp.questions.all(), of the questions that still have a row
LiveQuestions(r) ==
    SortByNumber({q \in DOMAIN questions :
                     questions[q] # NoRow /\ questions[q].rfp = r})

\* The request leaves the loop after its last question.
NextQuestion(t) ==
    IF task[t].idx < Len(task[t].qs) THEN "generate"
    ELSE IF task[t].kind \in {"generate_answers_async", "generate_answers"}
    THEN "finish" ELSE "returned"

\* The request is done with the question it is at.
QuestionDone(t) ==
    [task EXCEPT ![t].pc = NextQuestion(t), ![t].idx = @ + 1]

\* An exception: the view's loop (views.py 172-174) catches it and goes on
\* to the next question, every other request ends with it
OwnRaise(t, error) ==
    IF task[t].kind = "generate_answers"
    THEN [QuestionDone(t) EXCEPT ![t].error = error]
    ELSE [task EXCEPT ![t].pc = IF task[t].kind = "generate_answers_async"
                                THEN "except" ELSE "raised",
                      ![t].error = error]

\* tasks.py 138-159, tasks.py 280, views.py 109-126 and 219, and get_object()
\* of the deleting requests: the row the request is for is loaded, or is not
\* there; a batch marks its RFP as processing
OwnLoad(t) ==
    /\ task[t].pc = "queued"
    /\ LET kind == task[t].kind
           missing == IF kind \in {"generate_answers_async", "generate_answers",
                                 "destroy_rfp"}
                      THEN rfps[task[t].arg] = NoRow
                      ELSE questions[task[t].arg] = NoRow
           qs == IF kind \in {"generate_answers_async", "generate_answers"}
                 THEN LiveQuestions(task[t].arg) ELSE <<task[t].arg>>
       IN  /\ IF missing
              THEN task' = [task EXCEPT ![t].pc = "raised", ![t].error = "not found"]
              ELSE IF kind \in {"destroy_question", "destroy_rfp"}
              THEN task' = [task EXCEPT ![t].pc = "collect"]
              ELSE IF qs = <<>>
              THEN task' = IF kind = "generate_answers"
                           THEN [task EXCEPT ![t].pc = "finish"]
                           ELSE OwnRaise(t, "No questions found for this RFP")
              ELSE task' = [task EXCEPT ![t].pc = "generate", ![t].qs = qs,
                                        ![t].idx = 1]
           /\ rfps' = IF ~missing /\ kind \in {"generate_answers_async",
                                                "generate_answers"}
                      THEN [rfps EXCEPT ![task[t].arg] = [status |-> "processing"]]
                      ELSE rfps
    /\ UNCHANGED <<questions, answers>>
    /\ OwnershipUnchanged

\* tasks.py 178-183 and 286-291, views.py 130-135 and 226-231:
\* pipeline.generate_answer
\* returns or raises
OwnGenerate(t) ==
    /\ task[t].pc = "generate"
    /\ \/ task' = OwnRaise(t, "generation failed")
       \/ task' = [task EXCEPT ![t].pc = IF task[t].kind = "regenerate_answer_async"
                                         THEN "related" ELSE "get"]
    /\ UNCHANGED <<rfps, questions, answers>>
    /\ OwnershipUnchanged

\* get_or_create (tasks.py 191, views.py 141 and 240): the get
OwnGet(t) ==
    /\ task[t].pc \in {"get", "get_again"}
    /\ LET rows == AnswersOf(answers, task[t].qs[task[t].idx])
       IN  IF Cardinality(rows) = 1
           THEN task' = IF task[t].kind = "generate_answers_async"
                        THEN [QuestionDone(t) EXCEPT
                                 ![t].inst = CHOOSE a \in rows : TRUE]
                        ELSE [task EXCEPT ![t].inst = CHOOSE a \in rows : TRUE,
                                          ![t].pc = "save"]
           ELSE IF rows = {} /\ task[t].pc = "get"
           THEN task' = [task EXCEPT ![t].pc = "create"]
           ELSE task' = OwnRaise(t, IF rows = {} THEN "IntegrityError"
                                    ELSE "MultipleObjectsReturned")
    /\ UNCHANGED <<rfps, questions, answers>>
    /\ OwnershipUnchanged

\* get_or_create: the create, which the database may refuse; get_or_create
\* then looks the row up once more
OwnCreate(t) ==
    /\ task[t].pc = "create"
    /\ LET a == [id |-> <<t, task[t].qs[task[t].idx]>>,
                 question |-> task[t].qs[task[t].idx]]
       IN  IF CanInsertAnswer(answers, a)
           THEN /\ answers' = answers \cup {a}
                /\ task' = [QuestionDone(t) EXCEPT ![t].inst = a]
           ELSE /\ task' = [task EXCEPT ![t].pc = "get_again"]
                /\ UNCHANGED answers
    /\ UNCHANGED <<rfps, questions>>
    /\ OwnershipUnchanged

\* tasks.py 294: answer = question.answer, which raises when the question
\* has none
OwnRelated(t) ==
    /\ task[t].pc = "related"
    /\ LET rows == AnswersOf(answers, task[t].arg)
       IN  IF rows = {}
           THEN task' = [task EXCEPT ![t].pc = "raised",
                                     ![t].error = "Question has no answer"]
           ELSE task' = [task EXCEPT ![t].pc = "save",
                                     ![t].inst = CHOOSE a \in rows : TRUE]
    /\ UNCHANGED <<rfps, questions, answers>>
    /\ OwnershipUnchanged

\* answer.save() (tasks.py 300, views.py 158 and 256): the row with the instance's id
\* is updated; when there is none any more, the instance is inserted, which
\* the database may refuse
OwnSave(t) ==
    /\ task[t].pc = "save"
    /\ IF task[t].inst \in answers
       THEN /\ task' = QuestionDone(t)
            /\ UNCHANGED answers
       ELSE IF CanInsertAnswer(answers, task[t].inst)
       THEN /\ answers' = answers \cup {task[t].inst}
            /\ task' = QuestionDone(t)
       ELSE /\ task' = OwnRaise(t, "IntegrityError")
            /\ UNCHANGED answers
    /\ UNCHANGED <<rfps, questions>>
    /\ OwnershipUnchanged

\* instance.delete() of a question or an RFP: the rows that go with it
\* (models.py 86 and 112, CASCADE) are collected first
OwnCollect(t) ==
    /\ task[t].pc = "collect"
    /\ LET qs == IF task[t].kind = "destroy_question"
                 THEN {task[t].arg} \cap {q \in DOMAIN questions : questions[q] # NoRow}
                 ELSE Range(LiveQuestions(task[t].arg))
       IN  task' = [task EXCEPT
                      ![t].pc = "delete",
                      ![t].collected = [questions |-> qs,
                                        answers |-> {a \in answers : a.question \in qs}]]
    /\ UNCHANGED <<rfps, questions, answers>>
    /\ OwnershipUnchanged

\* instance.delete(): the collected rows and the instance are deleted in one
\* transaction, which the database refuses when an Answer row that was not
\* collected refers to one of the questions
OwnDelete(t) ==
    /\ task[t].pc = "delete"
    /\ LET left == answers \ task[t].collected.answers
       IN  IF \E a \in left : a.question \in task[t].collected.questions
           THEN /\ task' = [task EXCEPT ![t].pc = "raised",
                                        ![t].error = "IntegrityError"]
                /\ UNCHANGED <<rfps, questions, answers>>
           ELSE /\ answers' = left
                /\ questions' = [q \in DOMAIN questions |->
                       IF q \in task[t].collected.questions THEN NoRow
                       ELSE questions[q]]
                /\ rfps' = IF task[t].kind = "destroy_rfp"
                           THEN [rfps EXCEPT ![task[t].arg] = NoRow] ELSE rfps
                /\ task' = [task EXCEPT ![t].pc = "returned"]
    /\ OwnershipUnchanged

\* tasks.py 212-213, views.py 176-178: rfp.save() with the final status,
\* which inserts the row when it was deleted meanwhile
OwnFinish(t) ==
    /\ task[t].pc = "finish"
    /\ rfps' = [rfps EXCEPT ![task[t].arg] =
                   [status |-> IF task[t].error = "" THEN "completed" ELSE "failed"]]
    /\ task' = [task EXCEPT ![t].pc = "returned"]
    /\ UNCHANGED <<questions, answers>>
    /\ OwnershipUnchanged

\* tasks.py 244-264: the batch task marks the RFP as failed, when it is
\* still there, and raises
OwnExcept(t) ==
    /\ task[t].pc = "except"
    /\ rfps' = IF rfps[task[t].arg] = NoRow THEN rfps
               ELSE [rfps EXCEPT ![task[t].arg] = [status |-> "failed"]]
    /\ task' = [task EXCEPT ![t].pc = "raised"]
    /\ UNCHANGED <<questions, answers>>
    /\ OwnershipUnchanged

OwnershipNext ==
    \E t \in Requests :
        \/ OwnLoad(t)
        \/ OwnGenerate(t)
        \/ OwnGet(t)
        \/ OwnCreate(t)
        \/ OwnRelated(t)
        \/ OwnSave(t)
        \/ OwnCollect(t)
        \/ OwnDelete(t)
        \/ OwnFinish(t)
        \/ OwnExcept(t)

OwnershipSpec == OwnershipInit /\ [][OwnershipNext]_vars

\* C26: a question has at most one Answer row, and every Answer row is the
\* answer of a question that has a row.
C26_AnswerHasOneLivingQuestion ==
    /\ \A q \in DOMAIN questions : Cardinality(AnswersOf(answers, q)) <= 1
    /\ \A a \in answers :
           /\ a.question \in DOMAIN questions
           /\ questions[a.question] # NoRow

\* A request whose create was refused looks the row up again while the
\* question has its one answer, which another request created.
C26_Witness ==
    \E t \in Requests :
        /\ task[t].pc = "get_again"
        /\ \E a \in answers : a.question = task[t].qs[task[t].idx] /\ a.id[1] # 0

(***************************************************************************)
(* Claims about regenerating and persisting answers.                       *)
(***************************************************************************)

RegenerationKinds == {"regenerate_answer_async", "regenerate_answer"}

\* C31: every regeneration, by the task or by the endpoint, calls
\* generate_answer with the cache off: the result it holds is not a cached
\* one and comes from a fresh embedding and search.
C31_RegenerationBypassesCache ==
    \A t \in Requests :
        (task[t].kind \in RegenerationKinds /\ task[t].result # NoRow) =>
            /\ ~task[t].result.metadata.cached
            /\ task[t].result.embedded
            /\ task[t].result.searched

(***************************************************************************)
(* Regenerations racing on one question: q3 has an answer, and every       *)
(* request is a regeneration of it, by the task or by the endpoint.        *)
(***************************************************************************)

\* One request more than in AnswerSpec, so that a write can fall behind two
\* others.
Regenerators == 1..(MaxRequests + 1)

RaceInit ==
    /\ text = <<>>
    /\ normalized = <<>>
    /\ documents = [d \in DocIds |->
           IF d \in Docs
           THEN [NewDocument EXCEPT !.processing_status = "completed",
                                    !.processed = TRUE, !.chunk_count = 1]
           ELSE NoRow]
    /\ docChunks = [d \in Docs |-> 1]
    /\ chunkRows = {<<d, 0>> : d \in Docs}
    /\ collection = {ChunkId(d, 0) : d \in Docs}
    /\ rfps = [r \in RfpIds \cup {"missing"} |->
           IF r \in RfpIds THEN [status |-> "completed"] ELSE NoRow]
    /\ questions = [q \in QIds \cup {"missing"} |->
           CASE q = "q1" -> NewQuestion("r1", 1, <<"A", "?">>)
             [] q = "q2" -> NewQuestion("r1", 2, <<"b">>)
             [] q = "q3" -> NewQuestion("r2", 1, <<"a">>)
             [] OTHER -> NoRow]
    /\ answers = [q \in QIds |->
           IF q = "q3"
           THEN [answer_text |-> "answer one", confidence_score |-> "0.9",
                 metadata |-> [cached |-> FALSE, note |-> "model"],
                 cached |-> FALSE, regenerated_count |-> 0, generated_at |-> 0,
                 source_chunks |-> {}]
           ELSE NoRow]
    /\ now = 1
    /\ call = NoRow
    /\ returned = <<>>
    /\ taskStatus = [t \in Requests |-> NoRow]
    /\ task \in [Regenerators -> {QueuedRequest(kind, "q3") : kind \in RegenerationKinds}]

RaceNext ==
    \E t \in Regenerators :
        \/ regenerate_answer_async(t)
        \/ regenerate_answer(t)

RaceSpec == RaceInit /\ [][RaceNext]_vars

\* C32: no write lowers the regenerated_count of an answer.
C32_RegeneratedCountNeverDecreases ==
    [][\A q \in QIds :
          answers[q] # NoRow =>
              /\ answers'[q] # NoRow
              /\ answers'[q].regenerated_count >= answers[q].regenerated_count]_vars

\* C33: when the batch task persists the result for a question, the
\* question's answer afterwards carries the text, the confidence, the metadata
\* and the cached flag of that result, whether the row was created or was
\* there before.
C33_BatchPersistIsUpsert ==
    [][\A t \in Requests :
          (/\ task[t].kind = "generate_answers_async"
           /\ task[t].pc = "b_persist"
           /\ task'[t].pc # "b_persist")
          => LET question == RfpQuestions(task[t].arg)[task[t].idx]
                 result == task[t].result
             IN  /\ answers'[question] # NoRow
                 /\ answers'[question].answer_text = result.answer
                 /\ answers'[question].confidence_score = result.confidence_score
                 /\ answers'[question].metadata = result.metadata
                 /\ answers'[question].cached = result.metadata.cached]_vars

\* C34: a request that writes an answer and leaves the text of its result in
\* it leaves the source chunks of that result in it too; and an answer whose
\* text is the placeholder has no source chunk.
C34_SourceChunksAreOfStoredResult ==
    /\ [][\A t \in Requests :
            (/\ task[t].pc \in {"b_persist", "e_get", "r_save", "e_save"}
             /\ task[t].result # NoRow
             /\ task'[t].pc \in {"b_progress", "b_done", "returned"})
            => LET question == IF task[t].kind = "generate_answers_async"
                               THEN RfpQuestions(task[t].arg)[task[t].idx]
                               ELSE task[t].arg
                   result == task[t].result
               IN  answers'[question].answer_text = result.answer =>
                       answers'[question].source_chunks =
                           ChunksWithIds(result.source_chunks)]_vars
    /\ [](\A q \in QIds :
            (answers[q] # NoRow /\ answers[q].answer_text = Placeholder) =>
                answers[q].source_chunks = {})

(***************************************************************************)
(* The answer cache under edits: questions are answered and regenerated as *)
(* in CacheSpec, and their text is edited through QuestionViewSet.         *)
(***************************************************************************)

EditNext ==
    \/ CacheNext
    \/ \E q \in QIds : QuestionUpdate(q)

EditSpec == CacheInit /\ [][EditNext]_vars

\* The questions whose answer find_cached_answer returns for the hash: the
\* ones with the latest generated_at among those that have the hash.
CacheOwners(question_hash) ==
    {q \in CachedQuestions(question_hash) :
        \A o \in CachedQuestions(question_hash) :
            answers[o].generated_at <= answers[q].generated_at}

\* C35: the answer that a cache lookup for a text returns belongs to a
\* question whose current text normalizes to the same as the text asked.
C35_CacheHitOwnerHasTheText ==
    \A question_text \in QuestionTexts :
        \A q \in CacheOwners(generate_question_hash(question_text)) :
            /\ find_cached_answer(generate_question_hash(question_text)) = answers[q]
            /\ normalize_question(questions[q].question_text) =
                   normalize_question(question_text)

(***************************************************************************)
(* Answering before and after the ingestion: the requests of AnswerSpec on *)
(* an index that is empty until the document d1 is ingested.               *)
(***************************************************************************)

\* The requests that can be submitted: a batch for r1 or r2, a regeneration
\* of q3 by either path.
LateKinds ==
    <<<<"generate_answers_async", "r1">>, <<"generate_answers_async", "r2">>,
      <<"regenerate_answer_async", "q3">>, <<"regenerate_answer", "q3">>>>

LateInit ==
    /\ text = <<>>
    /\ normalized = <<>>
    /\ documents = [d \in DocIds |-> IF d \in Docs THEN NewDocument ELSE NoRow]
    /\ docChunks = [d \in Docs |-> 0]
    /\ chunkRows = {}
    /\ collection = {}
    /\ rfps = [r \in RfpIds \cup {"missing"} |->
           IF r \in RfpIds THEN [status |-> "pending"] ELSE NoRow]
    /\ questions = [q \in QIds \cup {"missing"} |->
           CASE q = "q1" -> NewQuestion("r1", 1, <<"A", "?">>)
             [] q = "q2" -> NewQuestion("r1", 2, <<"b">>)
             [] q = "q3" -> NewQuestion("r2", 1, <<"a">>)
             [] OTHER -> NoRow]
    /\ answers = [q \in QIds |-> NoRow]
    /\ now = 0
    /\ call = NoRow
    /\ returned = <<>>
    /\ taskStatus = [t \in Requests |-> NoRow]
    /\ task \in {[t \in Requests |->
                     QueuedRequest(LateKinds[f[t]][1], LateKinds[f[t]][2])] :
                    f \in {g \in [Requests -> DOMAIN LateKinds] :
                              \A i, j \in Requests : i < j => g[i] <= g[j]}}

\* rag_pipeline.py 30-142, a run of process_document that succeeds, from its
\* first line to its last: the document's one chunk gets its row and its
\* entry in the index, and the document is completed
IngestLater(d) ==
    /\ documents[d].processing_status = "pending"
    /\ documents' = [documents EXCEPT ![d] =
           [@ EXCEPT !.processing_status = "completed", !.processed = TRUE,
                     !.chunk_count = 1]]
    /\ docChunks' = [docChunks EXCEPT ![d] = 1]
    /\ chunkRows' = chunkRows \cup {<<d, 0>>}
    /\ collection' = collection \cup {ChunkId(d, 0)}
    /\ UNCHANGED <<text, normalized, taskStatus, task, rfps, questions, answers,
                   now, call, returned>>

LateNext ==
    \/ AnswerNext
    \/ \E d \in Docs : IngestLater(d)

LateSpec == LateInit /\ [][LateNext]_vars

\* The questions that no regeneration is requested for: only a batch writes
\* their answer.
BatchOnly == {q \in QIds : \A k \in DOMAIN LateKinds : LateKinds[k][2] # q}

\* C36 as stated: once a batch has persisted the placeholder as a question's
\* answer, generate_answer with the cache on returns, for that question's
\* text, the placeholder with cached = true and confidence 0.0 and does not
\* search, whatever was ingested since.
C36_PlaceholderSticks ==
    \A q \in BatchOnly :
        (answers[q] # NoRow /\ answers[q].answer_text = Placeholder) =>
            \A r \in generate_answer(questions[q].question_text, DefaultTopK, TRUE) :
                /\ ~r.raised
                /\ r.answer = Placeholder
                /\ r.confidence_score = "0.0"
                /\ r.metadata.cached
                /\ ~r.searched

\* C36 amended: once a batch has persisted the placeholder as a question's
\* answer, generate_answer with the cache on is, for that question's text, a
\* cache hit that neither embeds, searches nor generates, whatever was
\* ingested since; what it returns is the placeholder with confidence 0.0
\* as long as that answer is the one created last among the questions with
\* the hash.
C36_PlaceholderServedWhileLatest ==
    \A q \in BatchOnly :
        (answers[q] # NoRow /\ answers[q].answer_text = Placeholder) =>
            \A r \in generate_answer(questions[q].question_text, DefaultTopK, TRUE) :
                /\ ~r.raised
                /\ r.metadata.cached
                /\ ~r.embedded /\ ~r.searched /\ ~r.generated
                /\ q \in CacheOwners(questions[q].question_hash) =>
                       /\ r.answer = Placeholder
                       /\ r.confidence_score = "0.0"

\* The document is in the index, q1 has the placeholder, which is the answer
\* created last for its hash, and the batch on r2 holds it for q3 as a cache
\* hit.
C36_Witness ==
    /\ collection # {}
    /\ answers["q1"] # NoRow
    /\ answers["q1"].answer_text = Placeholder
    /\ "q1" \in CacheOwners(questions["q1"].question_hash)
    /\ \E t \in Requests :
           /\ task[t].kind = "generate_answers_async"
           /\ task[t].pc = "b_persist"
           /\ task[t].result.metadata.cached
           /\ task[t].result.answer = Placeholder

\* C37: when the index query raises, generate_answer does not raise: it
\* returns what it returns when no entry reaches the threshold (the
\* placeholder, confidence 0.0, no source chunk, the same metadata) without
\* calling the generator; and a batch that holds such a result for a question
\* without an answer goes on and creates the answer with the placeholder.
C37_IndexFailureLooksLikeNoContext ==
    /\ [](\A q \in QIds, use_cache \in BOOLEAN :
            \A r \in generate_answer(questions[q].question_text, DefaultTopK, use_cache) :
                r.search_failed =>
                    /\ ~r.raised
                    /\ ~r.generated
                    /\ [r EXCEPT !.search_failed = FALSE] =
                           [Result(Placeholder, "0.0", {}, FALSE, "No relevant context found")
                               EXCEPT !.embedded = TRUE, !.searched = TRUE])
    /\ [][\A t \in Requests :
            (/\ task[t].kind = "generate_answers_async"
             /\ task[t].pc = "b_persist"
             /\ task[t].result.search_failed
             /\ task'[t].pc # "b_persist")
            => LET question == RfpQuestions(task[t].arg)[task[t].idx]
               IN  /\ task'[t].pc \in {"b_progress", "b_done"}
                   /\ answers[question] = NoRow =>
                          /\ answers'[question] # NoRow
                          /\ answers'[question].answer_text = Placeholder
                          /\ answers'[question].confidence_score = "0.0"]_vars

\* A batch holds the placeholder for a question without an answer after the
\* index query raised.
C37_Witness ==
    \E t \in Requests :
        /\ task[t].kind = "generate_answers_async"
        /\ task[t].pc = "b_persist"
        /\ task[t].result.search_failed
        /\ task[t].result.answer = Placeholder
        /\ answers[RfpQuestions(task[t].arg)[task[t].idx]] = NoRow

\* The batch requests that hold a result the generator was called for.
HoldingGenerated ==
    {t \in Requests :
        /\ task[t].kind = "generate_answers_async"
        /\ task[t].pc = "b_persist"
        /\ task[t].result.generated}

\* The question a batch request is at.
QuestionAt(t) == RfpQuestions(task[t].arg)[task[t].idx]

\* C38 as stated: two batches on different RFPs never both call the generator
\* for questions with the same normalized text: they never both hold a
\* generated result for it.
C38_GeneratorInvokedOnce ==
    \A t1, t2 \in HoldingGenerated :
        (/\ t1 # t2
         /\ task[t1].arg # task[t2].arg)
        => normalize_question(questions[QuestionAt(t1)].question_text) #
               normalize_question(questions[QuestionAt(t2)].question_text)

\* C38 amended: a batch calls generate_answer once for each of its questions,
\* and the call is served from the cache, without the generator, exactly when
\* an answer for the hash is persisted at the time of the call; two batches
\* that both call before either has persisted are not kept from generating
\* both.
C38_GeneratedOnlyOnMiss ==
    /\ [](\A t \in Requests :
            \A i, j \in DOMAIN task[t].asked :
                i # j => task[t].asked[i] # task[t].asked[j])
    /\ [][\A t \in Requests :
            (/\ task[t].kind = "generate_answers_async"
             /\ task[t].pc = "b_generate"
             /\ task'[t].pc # "b_generate")
            => IF AnsweredWithHashOf(questions[QuestionAt(t)].question_text) # {}
               THEN /\ task'[t].pc = "b_persist"
                    /\ task'[t].result.metadata.cached
                    /\ ~task'[t].result.generated
               ELSE task'[t].pc = "b_persist" => ~task'[t].result.metadata.cached]_vars

\* The batch on r2 has generated and persisted the answer of q3, and the
\* batch on r1 holds it for q1 from the cache.
C38_Witness ==
    /\ answers["q3"] # NoRow
    /\ ~answers["q3"].cached
    /\ answers["q3"].metadata.note = "model"
    /\ \E t1, t2 \in Requests :
           /\ task[t1].kind = "generate_answers_async"
           /\ task[t1].arg = "r1"
           /\ task[t1].pc = "b_persist"
           /\ QuestionAt(t1) = "q1"
           /\ task[t1].result.metadata.cached
           /\ ~task[t1].result.generated
           /\ task[t2].kind = "generate_answers_async"
           /\ task[t2].arg = "r2"
           /\ task[t2].asked = <<"q3">>

(***************************************************************************)
(* Claims about a job's record and the document or RFP of the job.         *)
(***************************************************************************)

\* The record of job t and the status of its document or RFP agree.
JobAgrees(t) ==
    IF taskStatus[t].task_type = "document_processing"
    THEN /\ taskStatus[t].status = "SUCCESS" =>
                /\ documents[task[t].arg].processing_status = "completed"
                /\ documents[task[t].arg].processed
                /\ documents[task[t].arg].chunk_count =
                       taskStatus[t].result.chunks_created
         /\ taskStatus[t].status = "FAILURE" =>
                documents[task[t].arg].processing_status = "failed"
    ELSE /\ taskStatus[t].status = "SUCCESS" =>
                rfps[task[t].arg].status = "completed"
         /\ taskStatus[t].status = "FAILURE" =>
                rfps[task[t].arg].status = "failed"

\* No other job has started on the document or RFP of job t.
Alone(t) ==
    \A u \in DOMAIN task \ {t} :
        task[u].arg = task[t].arg => task[u].pc = "queued"

C40_BatchOutcomeAndNoRollback ==
    \A t \in Requests :
        (task[t].kind = "generate_answers_async" /\ taskStatus[t] # NoRow) =>
            LET qs == RfpQuestions(task[t].arg)
            IN  /\ taskStatus[t].status = "SUCCESS" =>
                       /\ \A i \in DOMAIN qs : answers[qs[i]] # NoRow
                       /\ task[t].asked = qs
                       /\ taskStatus[t].result.total_questions = Len(qs)
                       /\ taskStatus[t].result.answers_created \in 0..Len(qs)
                       /\ taskStatus[t].result.answers_cached \in 0..Len(qs)
                /\ taskStatus[t].status = "FAILURE" =>
                       \A i \in DOMAIN qs :
                           i < task[t].idx => answers[qs[i]] # NoRow

\* The batch on r1 has left with FAILURE at its second question, and the
\* answer of the first is in place.
C40_Witness ==
    \E t \in Requests :
        /\ task[t].kind = "generate_answers_async"
        /\ task[t].arg = "r1"
        /\ task[t].pc = "raised"
        /\ taskStatus[t].status = "FAILURE"
        /\ task[t].idx = 2
        /\ answers["q1"] # NoRow
        /\ answers["q2"] = NoRow

====
